---- MODULE Spec2Model ----
(***************************************************************************)
(* The round engine of the betting platform: GameService (the game cycle,  *)
(* bet placement, settlement), the Bet / Game / User model methods it      *)
(* calls, and the document store they persist to.                          *)
(*                                                                         *)
(* Every `await` of the JavaScript source is a scheduling point.  One      *)
(* action of this module is: the awaited store operation takes effect and  *)
(* the synchronous code after it runs up to the next await.  The code      *)
(* between two awaits is atomic, as it is on the Node.js event loop.       *)
(* Times are in milliseconds and kept as the time left to a deadline       *)
(* (endTime - Date.now(), the delay left of a timer); amounts are in       *)
(* currency units.                                                         *)
(***************************************************************************)
EXTENDS Integers, Sequences, FiniteSets, TLC

(***************************************************************************)
(* Program constants                                                       *)
(***************************************************************************)
\* process.env.GAME_DURATION || 180, in seconds
GAME_DURATION == 180
\* placeBet: if (timeLeft < 10000)
CUTOFF_MS == 10000
\* scheduleGameEnd: 2 second break between games
BREAK_MS == 2000
\* startGameCycle: retry after 5000 ms
RETRY_MS == 5000
\* parseInt(process.env.MIN_BET_AMOUNT) || 10
MIN_BET_AMOUNT == 10
\* parseInt(process.env.MAX_BET_AMOUNT) || 10000
MAX_BET_AMOUNT == 10000

(***************************************************************************)
(* Bounds of the model                                                     *)
(***************************************************************************)
\* rounds the engine creates: createNewGame is not taken past this period
MaxPeriod == 2
\* placeBet calls admitted (past the round and cutoff checks) over a run
MaxBets == 2
\* process restarts over a run
MaxRestarts == 1
\* store operations that fail over a run (SpecFail only)
MaxFailures == 1
\* the longest a placeBet call stays in flight, in ms: long enough to start at the
\* last admitted instant of a round and still be in flight when the next round is
\* created (CUTOFF_MS + BREAK_MS)
MaxLatency == 12000

\* concurrent placeBet calls in flight
Callers == {1, 2}
\* users of the ledger and the balance each starts with
Users == {"u1"}
InitialBalance == 100
\* user ids with no User document (the account was deleted after the token was issued)
UnknownUsers == {"u0"}
\* the admin status updates followed for one withdrawal
MaxUpdates == 3
\* what the callers of placeBet send: betType, betValue, amount
Wagers == {<<"color", "violet", 20>>, <<"number", "7", 60>>}
\* what callers send in SpecInput: a valid wager, amounts below and above the limits,
\* values outside the domain of their category
OddWagers ==
    {<<"color", "violet", 20>>, <<"color", "violet", 5>>, <<"color", "violet", 20000>>,
     <<"color", "blue", 20>>, <<"number", "12", 20>>}
\* what clients post to /api/game/bet in SpecApi: the OddWagers and a number written
\* with a leading zero
PostedWagers ==
    OddWagers \cup {<<"number", "07", 20>>}

NoGame == 0
NoResult == [number |-> -1, color |-> "none", size |-> "none"]
NaN == -1

(***************************************************************************)
(* Pure functions of the models                                            *)
(***************************************************************************)
\* a faulty colour table, for the sensitivity of C24_OutcomeDerivation: 0 is red
getColorFromNumber_zeroRed(number) ==
    IF number \in {1, 3, 7, 9} THEN "green"
    ELSE IF number \in {0, 2, 4, 6, 8} THEN "red"
    ELSE IF number \in {5} THEN "violet"
    ELSE "undefined"

\* gameSchema.methods.getColorFromNumber
getColorFromNumber(number) ==
    IF number \in {1, 3, 7, 9} THEN "green"
    ELSE IF number \in {2, 4, 6, 8} THEN "red"
    ELSE IF number \in {0, 5} THEN "violet"
    ELSE "undefined"

\* a faulty size test, for the sensitivity of C25_FiveIsVioletBig: big above 5 only
getSizeFromNumber_above(number) ==
    IF number > 5 THEN "big" ELSE "small"

\* gameSchema.methods.getSizeFromNumber
getSizeFromNumber(number) ==
    IF number >= 5 THEN "big" ELSE "small"

\* gameSchema.methods.generateRandomResult, for the drawn number
generateRandomResult(number) ==
    [number |-> number,
     color  |-> getColorFromNumber(number),
     size   |-> getSizeFromNumber(number)]

\* Math.floor(Math.random() * 10) is in 0..9; the numbers the game cycle draws here:
\* one for each way the Wagers can win or lose (violet wins, 7 wins, none wins)
DrawnNumbers == {5, 7, 8}

\* parseInt of a bet value (bet values are Strings in betSchema)
parseInt(s) ==
    CASE s = "0" -> 0 [] s = "1" -> 1 [] s = "2" -> 2 [] s = "3" -> 3
      [] s = "4" -> 4 [] s = "5" -> 5 [] s = "6" -> 6 [] s = "7" -> 7
      [] s = "8" -> 8 [] s = "9" -> 9 [] s = "12" -> 12 [] s = "07" -> 7
      [] OTHER -> NaN

\* a faulty getMultiplier, for the sensitivity of C23_WagerEvaluation: violet pays 2x
getMultiplier_flat(betType, betValue) ==
    IF betType = "color" THEN 20
    ELSE IF betType = "number" THEN 90
    ELSE IF betType = "size" THEN 20
    ELSE 10

\* betSchema.statics.getMultiplier, in tenths (45 is 4.5x)
getMultiplier(betType, betValue) ==
    IF betType = "color" THEN (IF betValue = "violet" THEN 45 ELSE 20)
    ELSE IF betType = "number" THEN 90
    ELSE IF betType = "size" THEN 20
    ELSE 10

\* amount * multiplier, the multiplier being in tenths
potentialWinOf(amount, multiplier) ==
    (amount * multiplier) \div 10

\* betSchema.methods.checkWin: the win test
isWin(betType, betValue, gameResult) ==
    IF betType = "color" THEN betValue = gameResult.color
    ELSE IF betType = "number" THEN parseInt(betValue) = gameResult.number /\ parseInt(betValue) # NaN
    ELSE IF betType = "size" THEN betValue = gameResult.size
    ELSE FALSE

\* a faulty checkWin, for the sensitivity of C22_PayoutFixed: a winner is paid its
\* stake back instead of its potentialWin
checkWin_stake(bet, gameResult) ==
    LET w == isWin(bet.betType, bet.betValue, gameResult)
    IN  [bet EXCEPT !.status = IF w THEN "won" ELSE "lost",
                    !.winAmount = IF w THEN bet.amount ELSE 0]

\* a faulty checkWin, for the sensitivity of C26_EvaluatorDeterministic: a document
\* that was evaluated before never wins
checkWin_once(bet, gameResult) ==
    LET w == bet.status = "pending" /\ isWin(bet.betType, bet.betValue, gameResult)
    IN  [bet EXCEPT !.status = IF w THEN "won" ELSE "lost",
                    !.winAmount = IF w THEN bet.potentialWin ELSE 0]

\* betSchema.methods.checkWin: the bet document after the call
checkWin(bet, gameResult) ==
    LET w == isWin(bet.betType, bet.betValue, gameResult)
    IN  [bet EXCEPT !.status = IF w THEN "won" ELSE "lost",
                    !.winAmount = IF w THEN bet.potentialWin ELSE 0]

\* a faulty updateBalance, for the sensitivity of C2_BalanceConservation: 'add' sets the
\* balance to the amount
updateBalance_overwrite(balance, amount, type) ==
    IF type = "add" THEN amount
    ELSE IF type = "subtract" THEN (IF balance - amount > 0 THEN balance - amount ELSE 0)
    ELSE balance

\* userSchema.methods.updateBalance: the balance field after the call
updateBalance(balance, amount, type) ==
    IF type = "add" THEN balance + amount
    ELSE IF type = "subtract" THEN (IF balance - amount > 0 THEN balance - amount ELSE 0)
    ELSE balance

\* the buckets of the per-round statistics: colorBets, sizeBets, numberBets
Buckets ==
    ({"color"} \X {"red", "green", "violet"})
    \cup ({"size"} \X {"big", "small"})
    \cup ({"number"} \X {"0", "1", "2", "3", "4", "5", "6", "7", "8", "9"})

\* new Game({gameId, period, startTime, endTime, status: 'active'}); endTime is kept
\* as timeLeft
NewGame(period) ==
    [period |-> period, status |-> "active",
     result |-> NoResult, totalBets |-> 0, totalAmount |-> 0,
     stats |-> [k \in Buckets |-> [count |-> 0, amount |-> 0]]]

\* gameSchema.methods.addBet: the in-memory document after the synchronous part
addBet(game, betType, betValue, amount) ==
    [game EXCEPT !.totalBets = @ + 1,
                 !.totalAmount = @ + amount,
                 !.stats = [k \in Buckets |->
                               IF k = <<betType, betValue>>
                               THEN [count |-> @[k].count + 1, amount |-> @[k].amount + amount]
                               ELSE @[k]]]

\* gameSchema.methods.addBet: this.colorBets[betValue] (sizeBets, numberBets) is
\* undefined for a value outside the buckets, and reading .count of it throws a
\* TypeError, after totalBets and totalAmount were incremented
addBetThrows(betType, betValue) ==
    <<betType, betValue>> \notin Buckets

\* POST /api/game/bet: the validation of the bet value that the route runs before it
\* calls placeBet
validBetValue(betType, betValue) ==
    /\ betType = "color" => betValue \in {"red", "green", "violet"}
    /\ betType = "size" => betValue \in {"big", "small"}
    /\ betType = "number" => (parseInt(betValue) # NaN /\ parseInt(betValue) >= 0
                                /\ parseInt(betValue) <= 9)

\* POST /api/game/bet: the message of the 400 response for a bet value that fails the
\* validation of the route
invalidValueMessage(betType) ==
    IF betType = "color" THEN "Invalid color value"
    ELSE IF betType = "size" THEN "Invalid size value"
    ELSE "Invalid number value"

\* the messages of the errors placeBet throws itself (the limits follow the last one)
EngineMessages ==
    {"No active game to place bet", "Betting time expired", "Insufficient balance",
     "Bet amount must be between"}

\* POST /api/game/bet: the response to a request that ended with `message`: the 400 of
\* the route's own validation, the catch of the route (400 with the message for the
\* four it tests with includes(), 500 for any other error), or the bet
apiResponse(message) ==
    IF message = "bet" THEN [status |-> 200, message |-> "Bet placed successfully"]
    ELSE IF message \in {"Invalid color value", "Invalid size value", "Invalid number value"}
    THEN [status |-> 400, message |-> message]
    ELSE IF message \in EngineMessages THEN [status |-> 400, message |-> message]
    ELSE [status |-> 500, message |-> "Server error while placing bet"]

\* client, GameContext.js: getBetMultiplier, in tenths
GameContext_getBetMultiplier(betType, betValue) ==
    IF betType = "color" THEN (IF betValue = "violet" THEN 45 ELSE 20)
    ELSE IF betType = "number" THEN 90
    ELSE IF betType = "size" THEN 20
    ELSE 10

\* client, GameContext.js: getColorFromNumber
GameContext_getColorFromNumber(number) ==
    IF number \in {1, 3, 7, 9} THEN "green"
    ELSE IF number \in {2, 4, 6, 8} THEN "red"
    ELSE IF number \in {0, 5} THEN "violet"
    ELSE "unknown"

\* client, GameContext.js: getSizeFromNumber
GameContext_getSizeFromNumber(number) ==
    IF number >= 5 THEN "big" ELSE "small"

\* client, GameContext.js: updateTimer enables betting above this many ms
CLIENT_CUTOFF_MS == 10000

\* a faulty updateTimer, for the sensitivity of C37_ClientAgreesWithServer: betting stays
\* enabled down to half the cutoff
updateTimer_late(newTimeLeft) ==
    newTimeLeft * 2 > CLIENT_CUTOFF_MS

\* client, GameContext.js: updateTimer, the value given to setBettingEnabled
updateTimer(newTimeLeft) ==
    newTimeLeft > CLIENT_CUTOFF_MS

\* a faulty cutoff test, for the sensitivity of C1_AdmissionCutoff: the last instant
\* of the betting window is refused
bettingExpired_inclusive(timeLeft) ==
    timeLeft <= CUTOFF_MS

\* placeBet: if (timeLeft < 10000)
bettingExpired(timeLeft) ==
    timeLeft < CUTOFF_MS

\* placeBet: if (amount < minBet || amount > maxBet)
outsideLimits(amount) ==
    amount < MIN_BET_AMOUNT \/ amount > MAX_BET_AMOUNT

(***************************************************************************)
(* State                                                                   *)
(***************************************************************************)
VARIABLES
    endsIn,     \* endTime - Date.now() of each Game document built, in ms, 0 once past
    games,      \* store: the Game collection, _id -> document
    bets,       \* store: the Bet collection, _id -> document
    balance,    \* store: the balance field of each User document
    txs,        \* store: the Transaction collection, in insertion order
    nGames,     \* Game documents constructed so far (the source of _id)
    nBets,      \* Bet documents constructed so far (the source of _id)
    nCalls,     \* placeBet calls that passed the round and cutoff checks so far
    mem,        \* the Game documents of the running process, _id -> in-memory document
    cur,        \* this.currentGame: the _id of a document of mem, or NoGame
    period,     \* this.period
    timers,     \* pending setTimeout callbacks: [kind, in], `in` the ms left
    started,    \* initializeGame has been called
    cycle,      \* startGameCycle: the await it is at
    creator,    \* createNewGame called from the timer: the document whose save it awaits
    ender,      \* the gameTimer callback (endGame, processBets): await and locals
    callers,    \* the placeBet calls in flight: await and locals of each
    reply,      \* what the placeBet call that settled last returned or threw
    restarts,   \* process restarts so far
    failures,   \* store operations that have failed so far
    credited,   \* history: how many times the winnings of each bet were added to a balance
    ev,         \* a Bet document taken through getMultiplier and checkWin on its own
    events,     \* history: how many times this.io.emit has broadcast each event
    clk,        \* getTimeLeft on its own: this.currentGame, endTime - Date.now(), result
    cl,         \* the client's helpers beside the server's: inputs and what each returned
    wd          \* one withdrawal: the user's balance, the transaction, the two handlers

vars ==
    <<endsIn, games, bets, balance, txs, nGames, nBets, nCalls, mem, cur, period,
      timers, started, cycle, creator, ender, callers, reply, restarts, failures,
      credited, ev, events, clk, cl, wd>>

\* the value of a local that holds no Bet document yet
NoBet ==
    [id |-> 0, user |-> "none", game |-> NoGame, period |-> 0, betType |-> "none",
     betValue |-> "none", amount |-> 0, multiplier |-> 0, potentialWin |-> 0,
     status |-> "none", winAmount |-> 0]

IdleEnder ==
    [pc |-> "idle", gameId |-> NoGame, list |-> <<>>, i |-> 0, bet |-> NoBet, ubal |-> 0,
     result |-> NoResult, direct |-> FALSE]

IdleCaller ==
    [pc |-> "idle", user |-> "none", betType |-> "none", betValue |-> "none",
     amount |-> 0, age |-> 0, ubal |-> 0, bet |-> NoBet, doc |-> NoGame,
     checked |-> NoGame]

\* no Bet document is being evaluated on its own
IdleEval ==
    [pc |-> "idle", betType |-> "none", betValue |-> "none", amount |-> 0, bet |-> NoBet,
     twin |-> NoBet, result |-> NoResult, isWin |-> FALSE, twinIsWin |-> FALSE]

\* this.io.emit(event, {period: this.currentGame.period, ...}); betPeriod is the period
\* of the Bet document the call returns, for 'betPlaced', and 0 otherwise
emit(event, betPeriod) ==
    LET e == [event |-> event, period |-> mem[cur].period, betPeriod |-> betPeriod]
    IN  events' = IF e \in DOMAIN events
                  THEN [events EXCEPT ![e] = @ + 1]
                  ELSE e :> 1 @@ events

\* getTimeLeft is not being looked at on its own
IdleClock ==
    [pc |-> "idle", game |-> "none", diff |-> 0, out |-> 0]

\* what one side returned: multiplier, color, size, and whether a bet may be placed
NoAnswer ==
    [multiplier |-> 0, color |-> "none", size |-> "none", betting |-> FALSE]

\* the client's helpers are not being compared with the server's
IdleClient ==
    [pc |-> "idle", betType |-> "none", betValue |-> "none", number |-> 0, timeLeft |-> 0,
     client |-> NoAnswer, server |-> NoAnswer]

\* the admin route is not handling a request
IdleAdmin ==
    [pc |-> "idle", oldStatus |-> "none", status |-> "none", user |-> 0]

\* no withdrawal is being followed
IdleWithdrawal ==
    [pc |-> "idle", balance |-> 0, amount |-> 0, user |-> 0, status |-> "none",
     admin |-> IdleAdmin, updates |-> 0, refunds |-> 0, completed |-> FALSE,
     lateRefund |-> FALSE]

\* this.currentGame, when there is one
currentGame ==
    mem[cur]

\* placeBet, getTimeLeft: this.currentGame.endTime.getTime() - new Date().getTime()
timeLeft ==
    endsIn[cur]

\* the ids of S in ascending order: the order find() returns the documents in
RECURSIVE SortedIds(_)
SortedIds(S) ==
    IF S = {} THEN <<>>
    ELSE LET m == CHOOSE x \in S : \A y \in S : x <= y
         IN  <<m>> \o SortedIds(S \ {m})

\* Game.findOne().sort({ period: -1 }): the highest persisted period, 0 when none
lastPeriod ==
    IF DOMAIN games = {} THEN 0
    ELSE CHOOSE p \in {games[g].period : g \in DOMAIN games} :
            \A g \in DOMAIN games : games[g].period <= p

\* a faulty recovery, for the sensitivity of C5_PeriodSequence: the period the
\* constructor set is kept
nextPeriod_unrecovered ==
    period

\* startGameCycle: this.period = lastGame ? lastGame.period + 1 : 1
nextPeriod ==
    IF lastPeriod = 0 THEN 1 ELSE lastPeriod + 1

\* a faulty query, for the sensitivity of C4_NoDoubleSettlement: Bet.find({ game: gameId })
findAllBets(gameId) ==
    {b \in DOMAIN bets : bets[b].game = gameId}

\* Bet.find({ game: gameId, status: 'pending' })
findPendingBets(gameId) ==
    {b \in DOMAIN bets : bets[b].game = gameId /\ bets[b].status = "pending"}

\* the store and the GameService after construction
InitService ==
    /\ endsIn = <<>>
    /\ games = <<>>
    /\ bets = <<>>
    /\ balance = [u \in Users |-> InitialBalance]
    /\ txs = <<>>
    /\ nGames = 0
    /\ nBets = 0
    /\ nCalls = 0
    /\ mem = <<>>
    /\ cur = NoGame
    /\ period = 1
    /\ timers = {}
    /\ started = FALSE
    /\ cycle = "idle"
    /\ creator = NoGame
    /\ ender = IdleEnder
    /\ callers = [c \in Callers |-> IdleCaller]
    /\ reply = "none"
    /\ restarts = 0
    /\ failures = 0
    /\ credited = <<>>
    /\ events = <<>>

Init ==
    /\ InitService
    /\ ev = IdleEval
    /\ clk = IdleClock
    /\ cl = IdleClient
    /\ wd = IdleWithdrawal

(***************************************************************************)
(* The game cycle                                                          *)
(***************************************************************************)
\* initializeGame(io): calls startGameCycle, which awaits Game.findOne()
initializeGame ==
    /\ ~started
    /\ started' = TRUE
    /\ cycle' = "findOne"
    /\ UNCHANGED <<endsIn, games, bets, balance, txs, nGames, nBets, nCalls, mem, cur,
                   period, timers, creator, ender, callers, reply, restarts, failures,
                   credited, ev, events, clk, cl, wd>>

\* createNewGame up to its await: this.currentGame = new Game({...}), with
\* endTime = now + GAME_DURATION * 1000; save() is issued
createNewGame(p) ==
    /\ nGames' = nGames + 1
    /\ mem' = (nGames + 1) :> NewGame(p) @@ mem
    /\ cur' = nGames + 1
    /\ endsIn' = (nGames + 1) :> (GAME_DURATION * 1000) @@ endsIn

\* startGameCycle: Game.findOne() resolves; this.period is set; createNewGame runs
\* up to await this.currentGame.save()
startGameCycleFound ==
    /\ cycle = "findOne"
    /\ nextPeriod <= MaxPeriod
    /\ period' = nextPeriod
    /\ createNewGame(nextPeriod)
    /\ cycle' = "save"
    /\ UNCHANGED <<games, bets, balance, txs, nBets, nCalls, timers, started, creator,
                   ender, callers, reply, restarts, failures, credited, ev, events, clk,
                   cl, wd>>

\* scheduleGameEnd: this.gameTimer = setTimeout(..., duration)
scheduleGameEnd(ts) ==
    ts \cup {[kind |-> "gameEnd", in |-> GAME_DURATION * 1000]}

\* startGameCycle: the save of createNewGame resolves ('gameStarted' is emitted);
\* scheduleGameEnd()
startGameCycleSaved ==
    /\ cycle = "save"
    /\ games' = cur :> mem[cur] @@ games
    /\ timers' = scheduleGameEnd(timers)
    /\ cycle' = "idle"
    /\ emit("gameStarted", 0)
    /\ UNCHANGED <<endsIn, bets, balance, txs, nGames, nBets, nCalls, mem, cur, period,
                   started, creator, ender, callers, reply, restarts, failures, credited,
                   ev, clk, cl, wd>>

\* a faulty timer callback, for the sensitivity of C11_OutcomeSetOnce: only
\* scheduleGameEnd is set again, no round is created
afterEndGame_noNewGame ==
    /\ period' = period + 1
    /\ timers' = {t \in timers : t.kind # "gameEnd"}
                   \cup {[kind |-> "scheduleGameEnd", in |-> BREAK_MS]}
    /\ ender' = IdleEnder

\* the callback of gameTimer after `await this.endGame()`: this.period++ and the two
\* setTimeout(..., 2000)
afterEndGame ==
    /\ period' = period + 1
    /\ timers' = {t \in timers : t.kind # "gameEnd"}
                   \cup {[kind |-> "createNewGame", in |-> BREAK_MS],
                         [kind |-> "scheduleGameEnd", in |-> BREAK_MS]}
    /\ ender' = IdleEnder

\* gameTimer fires: endGame up to await this.currentGame.save()
gameEndTimer ==
    /\ ender.pc = "idle"
    /\ \E t \in timers : t.kind = "gameEnd" /\ t.in <= 0
    /\ IF cur = NoGame
       THEN /\ afterEndGame
            /\ UNCHANGED mem
       ELSE /\ \E number \in DrawnNumbers :
                 /\ mem' = [mem EXCEPT ![cur].result = generateRandomResult(number),
                                       ![cur].status = "completed"]
                 /\ ender' = [IdleEnder EXCEPT !.pc = "endSave",
                                               !.result = generateRandomResult(number)]
            /\ timers' = {t \in timers : t.kind # "gameEnd"}
            /\ UNCHANGED period
    /\ UNCHANGED <<endsIn, games, bets, balance, txs, nGames, nBets, nCalls, cur,
                   started, cycle, creator, callers, reply, restarts, failures, credited,
                   ev, events, clk, cl, wd>>

\* endGame: the save resolves; processBets(this.currentGame._id, result) awaits Bet.find
endGameSaved ==
    /\ ender.pc = "endSave"
    /\ games' = cur :> mem[cur] @@ games
    /\ ender' = [ender EXCEPT !.pc = "find", !.gameId = cur]
    /\ UNCHANGED <<endsIn, bets, balance, txs, nGames, nBets, nCalls, mem, cur, period,
                   timers, started, cycle, creator, callers, reply, restarts, failures,
                   credited, ev, events, clk, cl, wd>>

\* processBets returns: to endGame, which emits 'gameEnded' and returns to the timer
\* callback, or to the caller that invoked it directly
processBetsReturn ==
    IF ender.direct
    THEN /\ ender' = [IdleEnder EXCEPT !.direct = TRUE]
         /\ UNCHANGED <<period, timers, events>>
    ELSE /\ emit("gameEnded", 0)
         /\ afterEndGame

\* processBets: the loop goes on to bet i of list (checkWin, then await bet.save()),
\* or, past the last one, returns
processBetsLoop(list, i) ==
    IF i <= Len(list)
    THEN /\ ender' = [ender EXCEPT !.pc = "betSave", !.list = list, !.i = i,
                                   !.bet = checkWin(list[i], ender.result)]
         /\ UNCHANGED <<period, timers, events>>
    ELSE processBetsReturn

\* processBets: Bet.find resolves
processBetsFound ==
    /\ ender.pc = "find"
    /\ processBetsLoop([k \in 1..Cardinality(findPendingBets(ender.gameId)) |->
                           bets[SortedIds(findPendingBets(ender.gameId))[k]]], 1)
    /\ UNCHANGED <<endsIn, games, bets, balance, txs, nGames, nBets, nCalls, mem, cur,
                   started, cycle, creator, callers, reply, restarts, failures, credited,
                   ev, clk, cl, wd>>

\* processBets: bet.save() resolves; await User.findById(bet.user)
processBetsBetSaved ==
    /\ ender.pc = "betSave"
    /\ bets' = [bets EXCEPT ![ender.bet.id] = ender.bet]
    /\ ender' = [ender EXCEPT !.pc = "findUser"]
    /\ UNCHANGED <<endsIn, games, balance, txs, nGames, nBets, nCalls, mem, cur, period,
                   timers, started, cycle, creator, callers, reply, restarts, failures,
                   credited, ev, events, clk, cl, wd>>

\* processBets: User.findById resolves; a winner: user.updateBalance(winAmount, 'add')
\* awaits its save; a loser: await user.save()
processBetsUserFound ==
    /\ ender.pc = "findUser"
    /\ IF ender.bet.status = "won"
       THEN ender' = [ender EXCEPT !.pc = "userBalance",
                         !.ubal = updateBalance(balance[ender.bet.user], ender.bet.winAmount, "add")]
       ELSE ender' = [ender EXCEPT !.pc = "userSave", !.ubal = balance[ender.bet.user]]
    /\ UNCHANGED <<endsIn, games, bets, balance, txs, nGames, nBets, nCalls, mem, cur,
                   period, timers, started, cycle, creator, callers, reply, restarts,
                   failures, credited, ev, events, clk, cl, wd>>

\* processBets: the save of updateBalance resolves; the 'win' transaction is built and
\* await transaction.save()
processBetsBalanceSaved ==
    /\ ender.pc = "userBalance"
    /\ balance' = [balance EXCEPT ![ender.bet.user] = ender.ubal]
    /\ credited' = IF ender.bet.id \in DOMAIN credited
                   THEN [credited EXCEPT ![ender.bet.id] = @ + 1]
                   ELSE ender.bet.id :> 1 @@ credited
    /\ ender' = [ender EXCEPT !.pc = "txSave"]
    /\ UNCHANGED <<endsIn, games, bets, txs, nGames, nBets, nCalls, mem, cur, period,
                   timers, started, cycle, creator, callers, reply, restarts, failures,
                   ev, events, clk, cl, wd>>

\* processBets: transaction.save() resolves; await user.save()
processBetsTxSaved ==
    /\ ender.pc = "txSave"
    /\ txs' = Append(txs, [user |-> ender.bet.user, type |-> "win",
                           amount |-> ender.bet.winAmount,
                           balanceBefore |-> ender.ubal - ender.bet.winAmount,
                           balanceAfter |-> ender.ubal])
    /\ ender' = [ender EXCEPT !.pc = "userSave"]
    /\ UNCHANGED <<endsIn, games, bets, balance, nGames, nBets, nCalls, mem, cur, period,
                   timers, started, cycle, creator, callers, reply, restarts, failures,
                   credited, ev, events, clk, cl, wd>>

\* processBets: user.save() resolves (totalWinnings / totalLosses); next bet
processBetsUserSaved ==
    /\ ender.pc = "userSave"
    /\ processBetsLoop(ender.list, ender.i + 1)
    /\ UNCHANGED <<endsIn, games, bets, balance, txs, nGames, nBets, nCalls, mem, cur,
                   started, cycle, creator, callers, reply, restarts, failures, credited,
                   ev, clk, cl, wd>>

\* setTimeout(() => this.createNewGame(), 2000) fires: createNewGame up to its await
createNewGameTimer ==
    /\ creator = NoGame
    /\ period <= MaxPeriod
    /\ \E t \in timers :
          /\ t.kind = "createNewGame"
          /\ t.in <= 0
          /\ timers' = timers \ {t}
    /\ createNewGame(period)
    /\ creator' = nGames + 1
    /\ UNCHANGED <<games, bets, balance, txs, nBets, nCalls, period, started, cycle,
                   ender, callers, reply, restarts, failures, credited, ev, events, clk,
                   cl, wd>>

\* createNewGame called from the timer: its save resolves ('gameStarted' is emitted)
createNewGameSaved ==
    /\ creator # NoGame
    /\ games' = creator :> mem[creator] @@ games
    /\ creator' = NoGame
    /\ emit("gameStarted", 0)
    /\ UNCHANGED <<endsIn, bets, balance, txs, nGames, nBets, nCalls, mem, cur, period,
                   timers, started, cycle, ender, callers, reply, restarts, failures,
                   credited, ev, clk, cl, wd>>

\* setTimeout(() => this.scheduleGameEnd(), 2000) fires, after the createNewGame
\* timer that was set before it with the same delay
scheduleGameEndTimer ==
    /\ \E t \in timers :
          /\ t.kind = "scheduleGameEnd"
          /\ t.in <= 0
          /\ ~\E t2 \in timers : t2.kind = "createNewGame" /\ t2.in <= t.in
          /\ timers' = scheduleGameEnd(timers \ {t})
    /\ UNCHANGED <<endsIn, games, bets, balance, txs, nGames, nBets, nCalls, mem, cur,
                   period, started, cycle, creator, ender, callers, reply, restarts,
                   failures, credited, ev, events, clk, cl, wd>>

\* a second call of processBets(this.currentGame._id, this.currentGame.result) for the
\* current round once it is closed
processBetsAgain ==
    /\ ender.pc = "idle"
    /\ cur # NoGame
    /\ cur \in DOMAIN games
    /\ games[cur].status = "completed"
    /\ ender' = [IdleEnder EXCEPT !.pc = "find", !.gameId = cur,
                                  !.result = currentGame.result, !.direct = TRUE]
    /\ UNCHANGED <<endsIn, games, bets, balance, txs, nGames, nBets, nCalls, mem, cur,
                   period, timers, started, cycle, creator, callers, reply, restarts,
                   failures, credited, ev, events, clk, cl, wd>>

(***************************************************************************)
(* placeBet                                                                *)
(***************************************************************************)
inFlight(c) ==
    callers[c].pc # "idle"

\* a faulty placeBet, for the sensitivity of C17_NoActiveRound: only a missing round is
\* refused, the status of the round is not looked at
placeBet_anyStatus(c, userId, betType, betValue, amount) ==
    /\ callers[c].pc = "idle"
    /\ \A d \in Callers : d < c => inFlight(d)
    /\ IF cur = NoGame
       THEN /\ reply' = "No active game to place bet"
            /\ UNCHANGED <<callers, nCalls>>
       ELSE IF bettingExpired(timeLeft)
       THEN /\ reply' = "Betting time expired"
            /\ UNCHANGED <<callers, nCalls>>
       ELSE /\ nCalls < MaxBets
            /\ nCalls' = nCalls + 1
            /\ callers' = [callers EXCEPT ![c] =
                              [IdleCaller EXCEPT
                                  !.pc = "findUser", !.user = userId, !.betType = betType,
                                  !.betValue = betValue, !.amount = amount,
                                  !.checked = cur]]
            /\ UNCHANGED reply
    /\ UNCHANGED <<endsIn, games, bets, balance, txs, nGames, nBets, mem, cur, period,
                   timers, started, cycle, creator, ender, restarts, failures, credited,
                   ev, events, clk, cl, wd>>

\* placeBet(userId, betType, betValue, amount) up to await User.findById(userId)
placeBet(c, userId, betType, betValue, amount) ==
    /\ callers[c].pc = "idle"
    /\ \A d \in Callers : d < c => inFlight(d)
    /\ IF cur = NoGame \/ currentGame.status # "active"
       THEN /\ reply' = "No active game to place bet"
            /\ UNCHANGED <<callers, nCalls>>
       ELSE IF bettingExpired(timeLeft)
       THEN /\ reply' = "Betting time expired"
            /\ UNCHANGED <<callers, nCalls>>
       ELSE /\ nCalls < MaxBets
            /\ nCalls' = nCalls + 1
            /\ callers' = [callers EXCEPT ![c] =
                              [IdleCaller EXCEPT
                                  !.pc = "findUser", !.user = userId, !.betType = betType,
                                  !.betValue = betValue, !.amount = amount,
                                  !.checked = cur]]
            /\ UNCHANGED reply
    /\ UNCHANGED <<endsIn, games, bets, balance, txs, nGames, nBets, mem, cur, period,
                   timers, started, cycle, creator, ender, restarts, failures, credited,
                   ev, events, clk, cl, wd>>

\* new Bet({user, game, gameId, period, betType, betValue, amount, multiplier, potentialWin})
NewBet(id, userId, betType, betValue, amount) ==
    [id |-> id, user |-> userId, game |-> cur, period |-> currentGame.period,
     betType |-> betType, betValue |-> betValue, amount |-> amount,
     multiplier |-> getMultiplier(betType, betValue),
     potentialWin |-> potentialWinOf(amount, getMultiplier(betType, betValue)),
     status |-> "pending", winAmount |-> 0]

\* a faulty balance test, for the sensitivity of C14_InsufficientBalance: only an
\* empty balance is refused
insufficientBalance_empty(userBalance, amount) ==
    userBalance <= 0

\* placeBet: if (user.balance < amount)
insufficientBalance(userBalance, amount) ==
    userBalance < amount

\* a faulty placement, for the sensitivity of C33_RejectionHasNoEffect: the amount is
\* debited before the limits are tested
placeBetUserFound_debited(c) ==
    LET call == callers[c]
    IN  /\ call.pc = "findUser"
        /\ IF call.user \notin Users
           THEN /\ callers' = [callers EXCEPT ![c] = IdleCaller]
                /\ reply' = "User not found"
                /\ UNCHANGED <<nBets, balance>>
           ELSE IF insufficientBalance(balance[call.user], call.amount)
           THEN /\ callers' = [callers EXCEPT ![c] = IdleCaller]
                /\ reply' = "Insufficient balance"
                /\ UNCHANGED <<nBets, balance>>
           ELSE IF outsideLimits(call.amount)
           THEN /\ callers' = [callers EXCEPT ![c] = IdleCaller]
                /\ reply' = "Bet amount must be between"
                /\ balance' = [balance EXCEPT ![call.user] =
                                  updateBalance(@, call.amount, "subtract")]
                /\ UNCHANGED nBets
           ELSE /\ nBets' = nBets + 1
                /\ callers' = [callers EXCEPT ![c] =
                                  [call EXCEPT
                                      !.pc = "betSave", !.ubal = balance[call.user],
                                      !.bet = NewBet(nBets + 1, call.user, call.betType,
                                                     call.betValue, call.amount)]]
                /\ UNCHANGED <<reply, balance>>
        /\ UNCHANGED <<endsIn, games, bets, txs, nGames, nCalls, mem, cur, period,
                       timers, started, cycle, creator, ender, restarts, failures,
                       credited, ev, events, clk, cl, wd>>

\* placeBet: User.findById resolves; the balance and limit checks; the Bet is built
\* from this.currentGame; await bet.save()
placeBetUserFound(c) ==
    LET call == callers[c]
    IN  /\ call.pc = "findUser"
        /\ IF call.user \notin Users
           THEN /\ callers' = [callers EXCEPT ![c] = IdleCaller]
                /\ reply' = "User not found"
                /\ UNCHANGED nBets
           ELSE IF insufficientBalance(balance[call.user], call.amount)
           THEN /\ callers' = [callers EXCEPT ![c] = IdleCaller]
                /\ reply' = "Insufficient balance"
                /\ UNCHANGED nBets
           ELSE IF outsideLimits(call.amount)
           THEN /\ callers' = [callers EXCEPT ![c] = IdleCaller]
                /\ reply' = "Bet amount must be between"
                /\ UNCHANGED nBets
           ELSE /\ nBets' = nBets + 1
                /\ callers' = [callers EXCEPT ![c] =
                                  [call EXCEPT
                                      !.pc = "betSave", !.ubal = balance[call.user],
                                      !.bet = NewBet(nBets + 1, call.user, call.betType,
                                                     call.betValue, call.amount)]]
                /\ UNCHANGED reply
        /\ UNCHANGED <<endsIn, games, bets, balance, txs, nGames, nCalls, mem, cur,
                       period, timers, started, cycle, creator, ender, restarts,
                       failures, credited, ev, events, clk, cl, wd>>

\* a faulty placement, for the sensitivity of C12_NoDebitWithoutWager: the debit is
\* issued although the bet was not persisted
placeBetBetSaved_lost(c) ==
    LET call == callers[c]
    IN  /\ call.pc = "betSave"
        /\ callers' = [callers EXCEPT ![c] =
                          [call EXCEPT !.pc = "userBalance",
                                       !.ubal = updateBalance(call.ubal, call.amount, "subtract")]]
        /\ UNCHANGED <<endsIn, games, bets, balance, txs, nGames, nBets, nCalls, mem,
                       cur, period, timers, started, cycle, creator, ender, reply,
                       restarts, failures, credited, ev, events, clk, cl, wd>>

\* placeBet: bet.save() resolves; user.updateBalance(amount, 'subtract') awaits its save
placeBetBetSaved(c) ==
    LET call == callers[c]
    IN  /\ call.pc = "betSave"
        /\ bets' = call.bet.id :> call.bet @@ bets
        /\ callers' = [callers EXCEPT ![c] =
                          [call EXCEPT !.pc = "userBalance",
                                       !.ubal = updateBalance(call.ubal, call.amount, "subtract")]]
        /\ UNCHANGED <<endsIn, games, balance, txs, nGames, nBets, nCalls, mem, cur,
                       period, timers, started, cycle, creator, ender, reply, restarts,
                       failures, credited, ev, events, clk, cl, wd>>

\* placeBet: the save of updateBalance resolves; the 'bet' transaction is built and
\* await transaction.save()
placeBetBalanceSaved(c) ==
    LET call == callers[c]
    IN  /\ call.pc = "userBalance"
        /\ balance' = [balance EXCEPT ![call.user] = call.ubal]
        /\ callers' = [callers EXCEPT ![c] = [call EXCEPT !.pc = "txSave"]]
        /\ UNCHANGED <<endsIn, games, bets, txs, nGames, nBets, nCalls, mem, cur, period,
                       timers, started, cycle, creator, ender, reply, restarts, failures,
                       credited, ev, events, clk, cl, wd>>

\* placeBet: transaction.save() resolves; this.currentGame.addBet(...) changes the
\* statistics of the current in-memory round and awaits its save, or throws, which
\* placeBet catches and rethrows
placeBetTxSaved(c) ==
    LET call == callers[c]
    IN  /\ call.pc = "txSave"
        /\ txs' = Append(txs, [user |-> call.user, type |-> "bet", amount |-> call.amount,
                               balanceBefore |-> call.ubal + call.amount,
                               balanceAfter |-> call.ubal])
        /\ mem' = [mem EXCEPT ![cur] = addBet(@, call.betType, call.betValue, call.amount)]
        /\ IF addBetThrows(call.betType, call.betValue)
           THEN /\ callers' = [callers EXCEPT ![c] = IdleCaller]
                /\ reply' = "error"
           ELSE /\ callers' = [callers EXCEPT ![c] = [call EXCEPT !.pc = "gameSave", !.doc = cur]]
                /\ UNCHANGED reply
        /\ UNCHANGED <<endsIn, games, bets, balance, nGames, nBets, nCalls, cur, period,
                       timers, started, cycle, creator, ender, restarts, failures,
                       credited, ev, events, clk, cl, wd>>

\* placeBet: the save of addBet resolves; 'betPlaced' is emitted; return bet
placeBetGameSaved(c) ==
    LET call == callers[c]
    IN  /\ call.pc = "gameSave"
        /\ games' = call.doc :> mem[call.doc] @@ games
        /\ callers' = [callers EXCEPT ![c] = IdleCaller]
        /\ reply' = "bet"
        /\ emit("betPlaced", call.bet.period)
        /\ UNCHANGED <<endsIn, bets, balance, txs, nGames, nBets, nCalls, mem, cur,
                       period, timers, started, cycle, creator, ender, restarts,
                       failures, credited, ev, clk, cl, wd>>

\* one step of a placeBet call in flight
placeBetStep(c) ==
    \/ placeBetUserFound(c)
    \/ placeBetBetSaved(c)
    \/ placeBetBalanceSaved(c)
    \/ placeBetTxSaved(c)
    \/ placeBetGameSaved(c)

(***************************************************************************)
(* Time, restart, failing store operations                                 *)
(***************************************************************************)
engineBusy ==
    cycle # "idle" \/ creator # NoGame \/ ender.pc # "idle"

\* how far the clock may move at once: to the deadline of a pending timer, or, in an
\* active round, to the last instant placeBet admits a bet at (timeLeft = CUTOFF_MS)
\* or to the first it does not
Delays ==
    {t.in : t \in timers}
    \cup (IF cur # NoGame /\ currentGame.status = "active"
          THEN {timeLeft - CUTOFF_MS, timeLeft - CUTOFF_MS + 1}
          ELSE {})

\* time passes, up to the next timer deadline; the engine's own store operations
\* resolve before the clock moves, a placeBet call within MaxLatency
Advance ==
    /\ ~engineBusy
    /\ \E d \in Delays :
          /\ d > 0
          /\ \A t \in timers : d <= t.in
          /\ \A c \in Callers : inFlight(c) => callers[c].age + d <= MaxLatency
          /\ timers' = {[kind |-> t.kind, in |-> t.in - d] : t \in timers}
          /\ endsIn' = [g \in DOMAIN endsIn |-> IF endsIn[g] > d THEN endsIn[g] - d ELSE 0]
          /\ callers' = [c \in Callers |->
                            IF inFlight(c) THEN [callers[c] EXCEPT !.age = @ + d]
                            ELSE callers[c]]
    /\ UNCHANGED <<games, bets, balance, txs, nGames, nBets, nCalls, mem, cur, period,
                   started, cycle, creator, ender, reply, restarts, failures, credited,
                   ev, events, clk, cl, wd>>

\* how long the process may be down: no time, or the duration of a round
Downtimes ==
    {0, GAME_DURATION * 1000}

\* the process stops and, after some downtime, is started again: the store is kept,
\* the memory of the process (GameService, timers, calls in flight) is lost,
\* initializeGame runs
Restart ==
    /\ started
    /\ restarts < MaxRestarts
    /\ restarts' = restarts + 1
    /\ mem' = <<>>
    /\ cur' = NoGame
    /\ \E d \in Downtimes :
          endsIn' = [g \in DOMAIN games |-> IF endsIn[g] > d THEN endsIn[g] - d ELSE 0]
    /\ period' = 1
    /\ timers' = {}
    /\ cycle' = "findOne"
    /\ creator' = NoGame
    /\ ender' = IdleEnder
    /\ callers' = [c \in Callers |-> IdleCaller]
    /\ reply' = "none"
    /\ UNCHANGED <<games, bets, balance, txs, nGames, nBets, nCalls, started, failures,
                   credited, ev, events, clk, cl, wd>>

\* a faulty startGameCycle, for the sensitivity of C31_SingleCloseTimer: scheduleGameEnd
\* is called although the creation failed
startGameCycleFailed_scheduled ==
    /\ cycle # "idle"
    /\ failures < MaxFailures
    /\ failures' = failures + 1
    /\ timers' = scheduleGameEnd(timers) \cup {[kind |-> "startGameCycle", in |-> RETRY_MS]}
    /\ cycle' = "idle"
    /\ UNCHANGED <<endsIn, games, bets, balance, txs, nGames, nBets, nCalls, mem, cur,
                   period, started, creator, ender, callers, reply, restarts, credited,
                   ev, events, clk, cl, wd>>

\* startGameCycle: Game.findOne() or the save of createNewGame rejects; the catch
\* sets the retry timer
startGameCycleFailed ==
    /\ cycle # "idle"
    /\ failures < MaxFailures
    /\ failures' = failures + 1
    /\ timers' = timers \cup {[kind |-> "startGameCycle", in |-> RETRY_MS]}
    /\ cycle' = "idle"
    /\ UNCHANGED <<endsIn, games, bets, balance, txs, nGames, nBets, nCalls, mem, cur,
                   period, started, creator, ender, callers, reply, restarts, credited,
                   ev, events, clk, cl, wd>>

\* the setTimeout of the catch of startGameCycle fires
retryTimer ==
    /\ cycle = "idle"
    /\ \E t \in timers :
          /\ t.kind = "startGameCycle"
          /\ t.in <= 0
          /\ timers' = timers \ {t}
    /\ cycle' = "findOne"
    /\ UNCHANGED <<endsIn, games, bets, balance, txs, nGames, nBets, nCalls, mem, cur,
                   period, started, creator, ender, callers, reply, restarts, failures,
                   credited, ev, events, clk, cl, wd>>

\* createNewGame called from the timer: its save rejects; nothing catches it
createNewGameFailed ==
    /\ creator # NoGame
    /\ failures < MaxFailures
    /\ failures' = failures + 1
    /\ creator' = NoGame
    /\ UNCHANGED <<endsIn, games, bets, balance, txs, nGames, nBets, nCalls, mem, cur,
                   period, timers, started, cycle, ender, callers, reply, restarts,
                   credited, ev, events, clk, cl, wd>>

\* a faulty endGame, for the sensitivity of C20_NextRoundOpens: the rejection is not
\* caught and ends the timer callback
endGameFailed_uncaught ==
    /\ ender.pc = "endSave"
    /\ failures < MaxFailures
    /\ failures' = failures + 1
    /\ ender' = IdleEnder
    /\ UNCHANGED <<endsIn, games, bets, balance, txs, nGames, nBets, nCalls, mem, cur,
                   period, timers, started, cycle, creator, callers, reply, restarts,
                   credited, ev, events, clk, cl, wd>>

\* endGame: the save rejects; the catch of endGame logs it and endGame returns
endGameFailed ==
    /\ ender.pc = "endSave"
    /\ failures < MaxFailures
    /\ failures' = failures + 1
    /\ afterEndGame
    /\ UNCHANGED <<endsIn, games, bets, balance, txs, nGames, nBets, nCalls, mem, cur,
                   started, cycle, creator, callers, reply, restarts, credited, ev,
                   events, clk, cl, wd>>

\* processBets: an awaited operation of the loop (or Bet.find) rejects; the catch
\* around the loop logs it and processBets returns
processBetsFailed ==
    /\ ender.pc \in {"find", "betSave", "findUser", "userBalance", "txSave", "userSave"}
    /\ failures < MaxFailures
    /\ failures' = failures + 1
    /\ processBetsReturn
    /\ UNCHANGED <<endsIn, games, bets, balance, txs, nGames, nBets, nCalls, mem, cur,
                   started, cycle, creator, callers, reply, restarts, credited, ev, clk,
                   cl, wd>>

\* placeBet: an awaited operation rejects; placeBet rethrows the error
placeBetFailed(c) ==
    /\ inFlight(c)
    /\ failures < MaxFailures
    /\ failures' = failures + 1
    /\ callers' = [callers EXCEPT ![c] = IdleCaller]
    /\ reply' = "error"
    /\ UNCHANGED <<endsIn, games, bets, balance, txs, nGames, nBets, nCalls, mem, cur,
                   period, timers, started, cycle, creator, ender, restarts, credited,
                   ev, events, clk, cl, wd>>

(***************************************************************************)
(* Specifications                                                          *)
(***************************************************************************)
engineStep ==
    \/ initializeGame
    \/ startGameCycleFound
    \/ startGameCycleSaved
    \/ gameEndTimer
    \/ endGameSaved
    \/ processBetsFound
    \/ processBetsBetSaved
    \/ processBetsUserFound
    \/ processBetsBalanceSaved
    \/ processBetsTxSaved
    \/ processBetsUserSaved

nextRoundStep ==
    \/ createNewGameTimer
    \/ createNewGameSaved
    \/ scheduleGameEndTimer

failureStep ==
    \/ startGameCycleFailed
    \/ retryTimer
    \/ createNewGameFailed
    \/ endGameFailed
    \/ processBetsFailed
    \/ \E c \in Callers : placeBetFailed(c)

\* a placeBet call arrives, on one of the slots of C
placeBetCall(C) ==
    \E c \in C, u \in Users, w \in Wagers :
        placeBet(c, u, w[1], w[2], w[3])

\* a placeBet call arrives for a user id that User.findById does not find
placeBetCallBy(C, U) ==
    \E c \in C, u \in U, w \in Wagers :
        placeBet(c, u, w[1], w[2], w[3])

\* a placeBet call arrives on one of the slots of C with one of the wagers of W
placeBetCallOf(C, W) ==
    \E c \in C, u \in Users, w \in W :
        placeBet(c, u, w[1], w[2], w[3])

\* one placeBet call at a time, concurrent with the game cycle
Next ==
    \/ engineStep
    \/ nextRoundStep
    \/ placeBetCall({1})
    \/ \E c \in Callers : placeBetStep(c)
    \/ Advance
    \/ Restart

\* the engine with placeBet calls concurrent with the game cycle, and process
\* restarts; every store operation succeeds
Spec ==
    Init /\ [][Next]_vars

\* placeBet calls concurrent with each other and with the game cycle, over the first
\* round and its settlement
NextConc ==
    \/ engineStep
    \/ placeBetCall(Callers)
    \/ \E c \in Callers : placeBetStep(c)
    \/ Advance

SpecConc ==
    Init /\ [][NextConc]_vars

\* a placeBet call runs from its call to its return with nothing in between
NextSeq ==
    \/ \E c \in Callers : placeBetStep(c)
    \/ /\ \A c \in Callers : ~inFlight(c)
       /\ \/ engineStep
          \/ nextRoundStep
          \/ placeBetCall({1})
          \/ Advance

SpecSeq ==
    Init /\ [][NextSeq]_vars

\* Spec without restarts, where store operations may fail
NextFail ==
    \/ engineStep
    \/ nextRoundStep
    \/ placeBetCall({1})
    \/ \E c \in Callers : placeBetStep(c)
    \/ Advance
    \/ failureStep

SpecFail ==
    Init /\ [][NextFail]_vars

\* Spec without restarts, where processBets may be called again for the closed round
NextAgain ==
    \/ engineStep
    \/ nextRoundStep
    \/ placeBetCall({1})
    \/ \E c \in Callers : placeBetStep(c)
    \/ Advance
    \/ processBetsAgain

SpecAgain ==
    Init /\ [][NextAgain]_vars

\* one placeBet call at a time over the first round and its settlement, where callers
\* also send amounts outside the limits and values outside the domain of the category
\* (the socket 'placeBet' event passes betType, betValue and amount on as received)
NextInput ==
    \/ engineStep
    \/ placeBetCallOf({1}, OddWagers)
    \/ placeBetCallBy({1}, UnknownUsers)
    \/ \E c \in Callers : placeBetStep(c)
    \/ Advance

SpecInput ==
    Init /\ [][NextInput]_vars

(***************************************************************************)
(* The wager evaluator and the outcome derivation on their own             *)
(***************************************************************************)
\* the stakes of the Bet documents evaluated on their own
EvalAmounts ==
    {MIN_BET_AMOUNT, 20}

\* the (betType, betValue, amount) the evaluator is given: every value of every category
EvalInputs ==
    {[IdleEval EXCEPT !.pc = "input", !.betType = w[1][1], !.betValue = w[1][2],
                      !.amount = w[2]] : w \in Buckets \X EvalAmounts}

\* placeBet: getMultiplier, potentialWin and new Bet({...}), without the round
EvalBet(betType, betValue, amount) ==
    [NoBet EXCEPT !.id = 1, !.user = "u1", !.betType = betType, !.betValue = betValue,
                  !.amount = amount, !.multiplier = getMultiplier(betType, betValue),
                  !.potentialWin = potentialWinOf(amount, getMultiplier(betType, betValue)),
                  !.status = "pending"]

InitEval ==
    /\ InitService
    /\ ev \in EvalInputs
    /\ clk = IdleClock
    /\ cl = IdleClient
    /\ wd = IdleWithdrawal

\* two Bet documents are built from the same betType, betValue and amount
evalNewBet ==
    /\ ev.pc = "input"
    /\ ev' = [ev EXCEPT !.pc = "built",
                        !.bet = EvalBet(ev.betType, ev.betValue, ev.amount),
                        !.twin = EvalBet(ev.betType, ev.betValue, ev.amount)]
    /\ UNCHANGED <<endsIn, games, bets, balance, txs, nGames, nBets, nCalls, mem, cur,
                   period, timers, started, cycle, creator, ender, callers, reply,
                   restarts, failures, credited, events, clk, cl, wd>>

\* generateRandomResult(): Math.floor(Math.random() * 10) is any of 0..9
evalGenerateRandomResult ==
    /\ ev.pc = "built"
    /\ \E number \in 0..9 :
          ev' = [ev EXCEPT !.pc = "drawn", !.result = generateRandomResult(number)]
    /\ UNCHANGED <<endsIn, games, bets, balance, txs, nGames, nBets, nCalls, mem, cur,
                   period, timers, started, cycle, creator, ender, callers, reply,
                   restarts, failures, credited, events, clk, cl, wd>>

\* bet.checkWin(result) on the first document
evalCheckWin ==
    /\ ev.pc = "drawn"
    /\ ev' = [ev EXCEPT !.pc = "checked",
                        !.bet = checkWin(ev.bet, ev.result),
                        !.isWin = isWin(ev.bet.betType, ev.bet.betValue, ev.result)]
    /\ UNCHANGED <<endsIn, games, bets, balance, txs, nGames, nBets, nCalls, mem, cur,
                   period, timers, started, cycle, creator, ender, callers, reply,
                   restarts, failures, credited, events, clk, cl, wd>>

\* bet.checkWin(result) on the second document
evalCheckWinTwin ==
    /\ ev.pc = "checked"
    /\ ev' = [ev EXCEPT !.pc = "twice",
                        !.twin = checkWin(ev.twin, ev.result),
                        !.twinIsWin = isWin(ev.twin.betType, ev.twin.betValue, ev.result)]
    /\ UNCHANGED <<endsIn, games, bets, balance, txs, nGames, nBets, nCalls, mem, cur,
                   period, timers, started, cycle, creator, ender, callers, reply,
                   restarts, failures, credited, events, clk, cl, wd>>

\* bet.checkWin(result) once more on the first document
evalCheckWinAgain ==
    /\ ev.pc = "twice"
    /\ ev' = [ev EXCEPT !.pc = "again",
                        !.bet = checkWin(ev.bet, ev.result),
                        !.isWin = isWin(ev.bet.betType, ev.bet.betValue, ev.result)]
    /\ UNCHANGED <<endsIn, games, bets, balance, txs, nGames, nBets, nCalls, mem, cur,
                   period, timers, started, cycle, creator, ender, callers, reply,
                   restarts, failures, credited, events, clk, cl, wd>>

NextEval ==
    \/ evalNewBet
    \/ evalGenerateRandomResult
    \/ evalCheckWin
    \/ evalCheckWinTwin
    \/ evalCheckWinAgain

SpecEval ==
    InitEval /\ [][NextEval]_vars

\* POST /api/game/bet: the route validates the bet value and answers 400 itself, or
\* calls gameService.placeBet
postBet(c, userId, betType, betValue, amount) ==
    IF validBetValue(betType, betValue)
    THEN placeBet(c, userId, betType, betValue, amount)
    ELSE /\ callers[c].pc = "idle"
         /\ reply' = invalidValueMessage(betType)
         /\ UNCHANGED <<endsIn, games, bets, balance, txs, nGames, nBets, nCalls, mem,
                        cur, period, timers, started, cycle, creator, ender, callers,
                        restarts, failures, credited, ev, events, clk, cl, wd>>

\* one request to POST /api/game/bet at a time over the first round and its settlement
NextApi ==
    \/ engineStep
    \/ \E u \in Users, w \in PostedWagers : postBet(1, u, w[1], w[2], w[3])
    \/ \E c \in Callers : placeBetStep(c)
    \/ Advance

SpecApi ==
    Init /\ [][NextApi]_vars

(***************************************************************************)
(* this.io.emit throws                                                     *)
(***************************************************************************)
\* startGameCycle: the save of createNewGame resolves and the emit of 'gameStarted'
\* throws out of createNewGame; the catch of startGameCycle sets the retry timer and
\* scheduleGameEnd is not reached
startGameCycleEmitFailed ==
    /\ cycle = "save"
    /\ failures < MaxFailures
    /\ failures' = failures + 1
    /\ games' = cur :> mem[cur] @@ games
    /\ timers' = timers \cup {[kind |-> "startGameCycle", in |-> RETRY_MS]}
    /\ cycle' = "idle"
    /\ UNCHANGED <<endsIn, bets, balance, txs, nGames, nBets, nCalls, mem, cur, period,
                   started, creator, ender, callers, reply, restarts, credited, ev,
                   events, clk, cl, wd>>

\* createNewGame called from the timer: its save resolves and the emit of 'gameStarted'
\* throws; nothing catches it
createNewGameEmitFailed ==
    /\ creator # NoGame
    /\ failures < MaxFailures
    /\ failures' = failures + 1
    /\ games' = creator :> mem[creator] @@ games
    /\ creator' = NoGame
    /\ UNCHANGED <<endsIn, bets, balance, txs, nGames, nBets, nCalls, mem, cur, period,
                   timers, started, cycle, ender, callers, reply, restarts, credited, ev,
                   events, clk, cl, wd>>

\* endGame: processBets returns after its last bet (or with none) and the emit of
\* 'gameEnded' throws; the catch of endGame logs it and the timer callback goes on
endGameEmitFailed ==
    /\ ~ender.direct
    /\ \/ ender.pc = "find" /\ findPendingBets(ender.gameId) = {}
       \/ ender.pc = "userSave" /\ ender.i = Len(ender.list)
    /\ failures < MaxFailures
    /\ failures' = failures + 1
    /\ afterEndGame
    /\ UNCHANGED <<endsIn, games, bets, balance, txs, nGames, nBets, nCalls, mem, cur,
                   started, cycle, creator, callers, reply, restarts, credited, ev,
                   events, clk, cl, wd>>

\* placeBet: the save of addBet resolves and the emit of 'betPlaced' throws; the catch
\* of placeBet rethrows it
placeBetEmitFailed(c) ==
    LET call == callers[c]
    IN  /\ call.pc = "gameSave"
        /\ failures < MaxFailures
        /\ failures' = failures + 1
        /\ games' = call.doc :> mem[call.doc] @@ games
        /\ callers' = [callers EXCEPT ![c] = IdleCaller]
        /\ reply' = "error"
        /\ UNCHANGED <<endsIn, bets, balance, txs, nGames, nBets, nCalls, mem, cur,
                       period, timers, started, cycle, creator, ender, restarts,
                       credited, ev, events, clk, cl, wd>>

\* the engine where an emit may throw and every store operation succeeds
NextEmit ==
    \/ engineStep
    \/ nextRoundStep
    \/ placeBetCall({1})
    \/ \E c \in Callers : placeBetStep(c)
    \/ Advance
    \/ retryTimer
    \/ startGameCycleEmitFailed
    \/ createNewGameEmitFailed
    \/ endGameEmitFailed
    \/ \E c \in Callers : placeBetEmitFailed(c)

SpecEmit ==
    Init /\ [][NextEmit]_vars

(***************************************************************************)
(* getTimeLeft on its own                                                  *)
(***************************************************************************)
\* the step of the clock and how far endTime - Date.now() runs, in ms: from a round
\* that has just been created to one whose close time passed MaxOverdue ms ago
ClockStep == 10000
MaxOverdue == 30000

\* what getTimeLeft finds: no current round, an active one or a completed one, and
\* the difference endTime.getTime() - Date.now(), which the clock leaves negative once
\* the close time has passed
ClockInputs ==
    {[pc |-> "ready", game |-> g, diff |-> d, out |-> 0] :
        g \in {"none", "active", "completed"},
        d \in {GAME_DURATION * 1000, CUTOFF_MS, 1, 0, -1}}

InitClock ==
    /\ InitService
    /\ ev = IdleEval
    /\ clk \in ClockInputs
    /\ cl = IdleClient
    /\ wd = IdleWithdrawal

\* a faulty getTimeLeft, for the sensitivity of C36_TimeLeftNotNegative: without Math.max
getTimeLeft_raw(game, diff) ==
    IF game = "none" THEN 0 ELSE diff

\* getTimeLeft: if (!this.currentGame) return 0; return Math.max(0, endTime - now)
getTimeLeft(game, diff) ==
    IF game = "none" THEN 0
    ELSE IF diff > 0 THEN diff ELSE 0

\* getTimeLeft() is called
callGetTimeLeft ==
    /\ clk.pc = "ready"
    /\ clk' = [clk EXCEPT !.pc = "returned", !.out = getTimeLeft(clk.game, clk.diff)]
    /\ UNCHANGED <<endsIn, games, bets, balance, txs, nGames, nBets, nCalls, mem, cur,
                   period, timers, started, cycle, creator, ender, callers, reply,
                   restarts, failures, credited, ev, events, cl, wd>>

\* the caller takes the result; time passes
clockTick ==
    /\ clk.pc = "returned"
    /\ clk.diff - ClockStep >= -MaxOverdue
    /\ clk' = [clk EXCEPT !.pc = "ready", !.diff = clk.diff - ClockStep]
    /\ UNCHANGED <<endsIn, games, bets, balance, txs, nGames, nBets, nCalls, mem, cur,
                   period, timers, started, cycle, creator, ender, callers, reply,
                   restarts, failures, credited, ev, events, cl, wd>>

\* endGame sets the status of the current round to completed
clockEndGame ==
    /\ clk.pc = "ready"
    /\ clk.game = "active"
    /\ clk.diff <= 0
    /\ clk' = [clk EXCEPT !.game = "completed"]
    /\ UNCHANGED <<endsIn, games, bets, balance, txs, nGames, nBets, nCalls, mem, cur,
                   period, timers, started, cycle, creator, ender, callers, reply,
                   restarts, failures, credited, ev, events, cl, wd>>

NextClock ==
    \/ callGetTimeLeft
    \/ clockTick
    \/ clockEndGame

SpecClock ==
    InitClock /\ [][NextClock]_vars

(***************************************************************************)
(* The client's copies of the rules beside the server's                    *)
(***************************************************************************)
\* the timeLeft values the client is sent, in ms: around the cutoff and a full round
ClientTimes ==
    {0, CUTOFF_MS - 1, CUTOFF_MS, CUTOFF_MS + 1, GAME_DURATION * 1000}

\* a bet type and value of the domains, a drawn number and a timeLeft
ClientInputs ==
    {[IdleClient EXCEPT !.pc = "input", !.betType = w[1], !.betValue = w[2],
                        !.number = n, !.timeLeft = t] :
        w \in Buckets, n \in 0..9, t \in ClientTimes}

InitClient ==
    /\ InitService
    /\ ev = IdleEval
    /\ clk = IdleClock
    /\ cl \in ClientInputs
    /\ wd = IdleWithdrawal

\* the client evaluates getBetMultiplier, getColorFromNumber, getSizeFromNumber and
\* updateTimer
clientEvaluates ==
    /\ cl.pc = "input"
    /\ cl' = [cl EXCEPT !.pc = "client",
                 !.client = [multiplier |-> GameContext_getBetMultiplier(cl.betType, cl.betValue),
                             color |-> GameContext_getColorFromNumber(cl.number),
                             size |-> GameContext_getSizeFromNumber(cl.number),
                             betting |-> updateTimer(cl.timeLeft)]]
    /\ UNCHANGED <<endsIn, games, bets, balance, txs, nGames, nBets, nCalls, mem, cur,
                   period, timers, started, cycle, creator, ender, callers, reply,
                   restarts, failures, credited, ev, events, clk, wd>>

\* the server evaluates Bet.getMultiplier, getColorFromNumber, getSizeFromNumber and
\* the cutoff test of placeBet for the same inputs
serverEvaluates ==
    /\ cl.pc = "client"
    /\ cl' = [cl EXCEPT !.pc = "both",
                 !.server = [multiplier |-> getMultiplier(cl.betType, cl.betValue),
                             color |-> getColorFromNumber(cl.number),
                             size |-> getSizeFromNumber(cl.number),
                             betting |-> ~bettingExpired(cl.timeLeft)]]
    /\ UNCHANGED <<endsIn, games, bets, balance, txs, nGames, nBets, nCalls, mem, cur,
                   period, timers, started, cycle, creator, ender, callers, reply,
                   restarts, failures, credited, ev, events, clk, wd>>

NextClient ==
    \/ clientEvaluates
    \/ serverEvaluates

SpecClient ==
    InitClient /\ [][NextClient]_vars

(***************************************************************************)
(* One withdrawal: POST /api/payment/withdraw and                          *)
(* PUT /api/admin/transactions/:id/status                                  *)
(***************************************************************************)
\* body('amount').isFloat({ min: 100 })
MIN_WITHDRAWAL == 100

\* the balance that must remain after a withdrawal
MIN_BALANCE_LEFT == 10

\* the status values the admin route accepts
TransactionStatuses ==
    {"pending", "completed", "failed", "cancelled"}

\* the balances and amounts of the request: below and at the minimum amount, leaving
\* less than, exactly and more than the minimum balance
WithdrawalInputs ==
    {[IdleWithdrawal EXCEPT !.pc = "ready", !.balance = b, !.amount = a] :
        b \in {MIN_WITHDRAWAL + MIN_BALANCE_LEFT - 1, MIN_WITHDRAWAL + MIN_BALANCE_LEFT,
               3 * MIN_WITHDRAWAL},
        a \in {MIN_WITHDRAWAL - 1, MIN_WITHDRAWAL, 2 * MIN_WITHDRAWAL}}

InitWithdraw ==
    /\ InitService
    /\ ev = IdleEval
    /\ clk = IdleClock
    /\ cl = IdleClient
    /\ wd \in WithdrawalInputs

\* POST /withdraw: validation, User.findById, the two balance checks, new Transaction
\* with status 'pending'; transaction.save() is issued
withdrawFindUser ==
    /\ wd.pc = "ready"
    /\ IF \/ wd.amount < MIN_WITHDRAWAL
          \/ wd.balance < wd.amount
          \/ wd.balance - wd.amount < MIN_BALANCE_LEFT
       THEN wd' = [wd EXCEPT !.pc = "rejected"]
       ELSE wd' = [wd EXCEPT !.pc = "saving", !.user = wd.balance]
    /\ UNCHANGED <<endsIn, games, bets, balance, txs, nGames, nBets, nCalls, mem, cur,
                   period, timers, started, cycle, creator, ender, callers, reply,
                   restarts, failures, credited, ev, events, clk, cl>>

\* POST /withdraw: transaction.save() resolves; user.updateBalance(amount, 'subtract')
\* changes the loaded user and issues its save
withdrawTransactionSaved ==
    /\ wd.pc = "saving"
    /\ wd' = [wd EXCEPT !.pc = "deducting", !.status = "pending",
                        !.user = updateBalance(wd.user, wd.amount, "subtract")]
    /\ UNCHANGED <<endsIn, games, bets, balance, txs, nGames, nBets, nCalls, mem, cur,
                   period, timers, started, cycle, creator, ender, callers, reply,
                   restarts, failures, credited, ev, events, clk, cl>>

\* POST /withdraw: the user's save resolves and the response is sent
withdrawBalanceSaved ==
    /\ wd.pc = "deducting"
    /\ wd' = [wd EXCEPT !.pc = "submitted", !.balance = wd.user]
    /\ UNCHANGED <<endsIn, games, bets, balance, txs, nGames, nBets, nCalls, mem, cur,
                   period, timers, started, cycle, creator, ender, callers, reply,
                   restarts, failures, credited, ev, events, clk, cl>>

\* PUT /transactions/:id/status: Transaction.findById(id).populate('user') resolves;
\* oldStatus is taken and updateStatus issues the transaction's save
adminFindTransaction(status) ==
    /\ wd.admin.pc = "idle"
    /\ wd.status # "none"
    /\ wd.updates < MaxUpdates
    /\ wd' = [wd EXCEPT !.updates = @ + 1,
                        !.admin = [pc |-> "updateStatus", oldStatus |-> wd.status,
                                   status |-> status, user |-> wd.balance]]
    /\ UNCHANGED <<endsIn, games, bets, balance, txs, nGames, nBets, nCalls, mem, cur,
                   period, timers, started, cycle, creator, ender, callers, reply,
                   restarts, failures, credited, ev, events, clk, cl>>

\* PUT /transactions/:id/status: the transaction's save resolves; pending -> failed
\* calls user.updateBalance(amount, 'add'), pending -> completed adds to
\* totalWithdrawn and saves the user, every other change answers at once
adminStatusSaved ==
    /\ wd.admin.pc = "updateStatus"
    /\ LET a == wd.admin
           saved == [wd EXCEPT !.status = a.status,
                               !.completed = @ \/ a.status = "completed"]
       IN  IF a.oldStatus = "pending" /\ a.status = "failed"
           THEN wd' = [saved EXCEPT !.admin.pc = "refund",
                                    !.admin.user = updateBalance(a.user, wd.amount, "add")]
           ELSE IF a.oldStatus = "pending" /\ a.status = "completed"
           THEN wd' = [saved EXCEPT !.admin.pc = "totalWithdrawn"]
           ELSE wd' = [saved EXCEPT !.admin = IdleAdmin]
    /\ UNCHANGED <<endsIn, games, bets, balance, txs, nGames, nBets, nCalls, mem, cur,
                   period, timers, started, cycle, creator, ender, callers, reply,
                   restarts, failures, credited, ev, events, clk, cl>>

\* PUT /transactions/:id/status: the user's save resolves (the balance of the refund,
\* or totalWithdrawn alone), the activity log is written and the response is sent
adminUserSaved ==
    /\ wd.admin.pc \in {"refund", "totalWithdrawn"}
    /\ IF wd.admin.pc = "refund"
       THEN wd' = [wd EXCEPT !.balance = wd.admin.user,
                            !.refunds = @ + 1,
                            !.lateRefund = @ \/ wd.completed,
                            !.admin = IdleAdmin]
       ELSE wd' = [wd EXCEPT !.admin = IdleAdmin]
    /\ UNCHANGED <<endsIn, games, bets, balance, txs, nGames, nBets, nCalls, mem, cur,
                   period, timers, started, cycle, creator, ender, callers, reply,
                   restarts, failures, credited, ev, events, clk, cl>>

NextWithdraw ==
    \/ withdrawFindUser
    \/ withdrawTransactionSaved
    \/ withdrawBalanceSaved
    \/ \E status \in TransactionStatuses : adminFindTransaction(status)
    \/ adminStatusSaved
    \/ adminUserSaved

SpecWithdraw ==
    InitWithdraw /\ [][NextWithdraw]_vars

\* SpecFail where pending store operations eventually resolve or reject, due timers
\* fire and time passes; nothing forces an operation to fail or a call to arrive
FairFail ==
    /\ WF_vars(engineStep)
    /\ WF_vars(nextRoundStep)
    /\ WF_vars(retryTimer)
    /\ WF_vars(\E c \in Callers : placeBetStep(c))
    /\ WF_vars(Advance)

SpecFailLive ==
    Init /\ [][NextFail]_vars /\ FairFail

(***************************************************************************)
(* Properties                                                              *)
(***************************************************************************)
betsOf(u) ==
    {b \in DOMAIN bets : bets[b].user = u}

RECURSIVE StakeSum(_)
StakeSum(S) ==
    IF S = {} THEN 0
    ELSE LET b == CHOOSE x \in S : TRUE
         IN  bets[b].amount + StakeSum(S \ {b})

RECURSIVE WinSum(_)
WinSum(S) ==
    IF S = {} THEN 0
    ELSE LET b == CHOOSE x \in S : TRUE
         IN  bets[b].winAmount + WinSum(S \ {b})

activeGames ==
    {g \in DOMAIN games : games[g].status = "active"}

noCallInFlight ==
    \A c \in Callers : ~inFlight(c)

\* C1: in a round whose status is active, a placeBet call made with
\* endTime - now >= 10 s goes on to the balance and limit checks, and when it passes
\* them its Bet is built and saved; a call made with endTime - now < 10 s is refused
\* with 'Betting time expired' and changes no bet, balance or transaction.
C1_AdmissionCutoff ==
    [][/\ \A c \in Callers, u \in Users, w \in Wagers :
             (/\ cur # NoGame
              /\ currentGame.status = "active"
              /\ placeBet(c, u, w[1], w[2], w[3]))
             => IF timeLeft >= CUTOFF_MS
                THEN /\ callers'[c].pc = "findUser"
                     /\ reply' = reply
                ELSE /\ reply' = "Betting time expired"
                     /\ callers' = callers
                     /\ bets' = bets /\ nBets' = nBets
                     /\ balance' = balance /\ txs' = txs
       /\ \A c \in Callers :
             (/\ placeBetUserFound(c)
              /\ balance[callers[c].user] >= callers[c].amount
              /\ callers[c].amount >= MIN_BET_AMOUNT
              /\ callers[c].amount <= MAX_BET_AMOUNT)
             => /\ callers'[c].pc = "betSave"
                /\ callers'[c].bet.amount = callers[c].amount
                /\ callers'[c].bet.status = "pending"]_vars

\* a call was refused inside the cutoff window of an active round that holds a bet
\* admitted earlier
C1_RefusedInWindow ==
    /\ reply = "Betting time expired"
    /\ cur # NoGame
    /\ currentGame.status = "active"
    /\ timeLeft = CUTOFF_MS - 1
    /\ \E b \in DOMAIN bets : bets[b].game = cur

C3_AtomicDebit ==
    \A u \in Users :
        (\A b \in betsOf(u) : bets[b].status = "pending")
        => /\ StakeSum(betsOf(u)) <= InitialBalance
           /\ (noCallInFlight /\ ender.pc = "idle")
              => balance[u] = InitialBalance - StakeSum(betsOf(u))

\* two calls have returned: stakes above the initial balance are persisted
C3_Overdrawn ==
    \E u \in Users :
        /\ noCallInFlight
        /\ \A b \in betsOf(u) : bets[b].status = "pending"
        /\ StakeSum(betsOf(u)) > InitialBalance
        /\ balance[u] > 0

\* C4: a bet that is won or lost is never changed again, also when processBets runs
\* again for the closed round, and the winnings of a bet are added to a balance at
\* most once.
C4_NoDoubleSettlement ==
    [][\A b \in DOMAIN bets :
          /\ bets[b].status # "pending" => (b \in DOMAIN bets' /\ bets'[b] = bets[b])
          /\ b \in DOMAIN credited' => credited'[b] <= 1]_vars

\* processBets has run again for a closed round with a won bet that was credited
C4_SettledAgain ==
    /\ ender.pc = "idle"
    /\ ender.direct
    /\ \E b \in DOMAIN bets :
          /\ bets[b].game = cur
          /\ bets[b].status = "won"
          /\ b \in DOMAIN credited
          /\ credited[b] = 1

\* C5: the periods of the persisted rounds are 1, 2, ... in the order the rounds were
\* created, without duplicate or gap, also after a restart.
C5_PeriodSequence ==
    /\ \A g, h \in DOMAIN games : g < h => games[g].period < games[h].period
    /\ {games[g].period : g \in DOMAIN games} = 1..Cardinality(DOMAIN games)

\* after a restart the round opened has the period after the highest persisted one
C5_PeriodAfterRestart ==
    /\ restarts = 1
    /\ cur # NoGame
    /\ cur \in DOMAIN games
    /\ games[cur].period = 2
    /\ \E g \in DOMAIN games : games[g].period = 1

\* C6: a bet is persisted only for a round that is not closed.
C6_AdmissionSerialized ==
    [][\A b \in DOMAIN bets' \ DOMAIN bets :
          mem[bets'[b].game].status = "active"]_vars

\* bet.save() of a placeBet call has resolved for a round that endGame has closed
C6_PersistedAfterClose ==
    \E c \in Callers :
        /\ callers[c].pc = "userBalance"
        /\ callers[c].bet.id \in DOMAIN bets
        /\ mem[callers[c].bet.game].status = "completed"

\* C7: when a round is opened, no persisted bet of an earlier round is pending.
C7_NoPendingOutlivesRound ==
    [][nGames' = nGames + 1 => \A b \in DOMAIN bets : bets[b].status # "pending"]_vars

\* without any restart: a round is open and a bet of a closed round is pending, after
\* the settlement of that round has returned
C7_PendingOutlived ==
    /\ restarts = 0
    /\ ender.pc = "idle"
    /\ cur \in DOMAIN games
    /\ games[cur].status = "active"
    /\ \E b \in DOMAIN bets :
          /\ bets[b].status = "pending"
          /\ bets[b].game # cur
          /\ bets[b].game \in DOMAIN games
          /\ games[bets[b].game].status = "completed"

\* C8: when processBets returns, every bet it loaded other than the one it was at is
\* settled, whether or not an operation on that one failed.
C8_SettlementIsolation ==
    [][(ender.pc \notin {"idle", "endSave"} /\ ender'.pc = "idle")
       => \A k \in 1..Len(ender.list) :
             k # ender.i => bets'[ender.list[k].id].status # "pending"]_vars

\* processBets has returned after a failure: one bet of the round is settled, its
\* sibling is left pending
C8_SiblingLeftPending ==
    /\ failures = 1
    /\ ender.pc = "idle"
    /\ \E a, b \in DOMAIN bets :
          /\ bets[a].game = bets[b].game
          /\ bets[a].game \in DOMAIN games
          /\ games[bets[a].game].status = "completed"
          /\ bets[a].status # "pending"
          /\ bets[b].status = "pending"

\* C9: when startGameCycle opens a round, no persisted round is active past its close
\* time.
C9_RestartRecovery ==
    [][(cycle = "findOne" /\ cycle' = "save")
       => \A g \in DOMAIN games : games[g].status = "active" => endsIn[g] > 0]_vars

\* after a restart a round is open while an earlier round, past its close time, is
\* still active with a pending bet
C9_StaleRoundLeftOpen ==
    /\ restarts = 1
    /\ cur \in DOMAIN games
    /\ games[cur].status = "active"
    /\ \E g \in DOMAIN games, b \in DOMAIN bets :
          /\ g # cur
          /\ games[g].status = "active"
          /\ endsIn[g] = 0
          /\ bets[b].game = g
          /\ bets[b].status = "pending"

\* C10: once startGameCycle has opened a round, this.currentGame is an active round
\* and it is the one persisted round that is active.
C10_ExactlyOneOpen ==
    (started /\ cycle = "idle")
    => /\ cur # NoGame
       /\ currentGame.status = "active"
       /\ activeGames = {cur}

\* startGameCycle has opened a round and two persisted rounds are active
C10_TwoOpenRounds ==
    /\ started
    /\ cycle = "idle"
    /\ Cardinality(activeGames) = 2

\* C11: a round that is active has no result, in memory and in the store; the result
\* of a round changes only at the step that moves its status from active to completed;
\* a completed round stays completed with the same result; endGame starts only on an
\* active round.
C11_OutcomeSetOnce ==
    [][/\ \A g \in DOMAIN mem : mem[g].status = "active" => mem[g].result = NoResult
       /\ \A g \in DOMAIN games : games[g].status = "active" => games[g].result = NoResult
       /\ \A g \in DOMAIN mem \cap DOMAIN mem' :
             /\ mem[g].status = "completed"
                => (mem'[g].status = "completed" /\ mem'[g].result = mem[g].result)
             /\ (mem[g].status = "active" /\ mem'[g].status = "completed")
                => mem'[g].result # NoResult
             /\ mem'[g].result # mem[g].result
                => (mem[g].status = "active" /\ mem'[g].status = "completed")
       /\ \A g \in DOMAIN games \cap DOMAIN games' :
             /\ games[g].status = "completed"
                => (games'[g].status = "completed" /\ games'[g].result = games[g].result)
             /\ (games[g].status = "active" /\ games'[g].status = "completed")
                => games'[g].result # NoResult
             /\ games'[g].result # games[g].result
                => (games[g].status = "active" /\ games'[g].status = "completed")
       /\ (ender.pc = "idle" /\ ender'.pc = "endSave")
          => (currentGame.status = "active" /\ currentGame.result = NoResult)]_vars

\* a round was closed with a result and the next round is open
C11_ClosedWithOutcome ==
    /\ cur # NoGame
    /\ currentGame.status = "active"
    /\ \E g \in DOMAIN games :
          /\ g # cur
          /\ games[g].status = "completed"
          /\ games[g].result # NoResult
          /\ g \in DOMAIN mem
          /\ mem[g].result = games[g].result

\* C12: every step that lowers the balance of a user is the debit of a placeBet call
\* whose bet, of that user, is already persisted; so also when a later operation of
\* the call fails, no balance is debited without a persisted bet.
C12_NoDebitWithoutWager ==
    [][\A u \in Users :
          balance'[u] < balance[u]
          => \E c \in Callers :
                /\ callers[c].pc = "userBalance"
                /\ callers[c].user = u
                /\ callers[c].bet.id \in DOMAIN bets
                /\ bets[callers[c].bet.id].user = u
                /\ bets[callers[c].bet.id].amount = callers[c].amount
                /\ bets'[callers[c].bet.id] = bets[callers[c].bet.id]]_vars

\* a placeBet call failed after its debit: the bet is persisted and pending, the
\* balance is lower by the stake, no transaction was written
C12_FailedAfterDebit ==
    /\ reply = "error"
    /\ failures = 1
    /\ txs = <<>>
    /\ \E b \in DOMAIN bets :
          /\ bets[b].status = "pending"
          /\ DOMAIN bets = {b}
          /\ balance[bets[b].user] = InitialBalance - bets[b].amount

betsOn(g) ==
    {b \in DOMAIN bets : bets[b].game = g}

RECURSIVE CountSum(_, _)
CountSum(stats, K) ==
    IF K = {} THEN 0
    ELSE LET k == CHOOSE x \in K : TRUE
         IN  stats[k].count + CountSum(stats, K \ {k})

RECURSIVE AmountSum(_, _)
AmountSum(stats, K) ==
    IF K = {} THEN 0
    ELSE LET k == CHOOSE x \in K : TRUE
         IN  stats[k].amount + AmountSum(stats, K \ {k})

\* the counters of a Game document agree with the persisted bets of that round
countersAgree(g, doc) ==
    /\ doc.totalBets = Cardinality(betsOn(g))
    /\ doc.totalAmount = StakeSum(betsOn(g))
    /\ CountSum(doc.stats, Buckets) = doc.totalBets
    /\ AmountSum(doc.stats, Buckets) = doc.totalAmount

\* C13: once the placeBet calls have returned, each round, in memory and in the store,
\* has totalBets = the number of bets persisted for it and totalAmount = the sum of
\* their stakes, and its per-bucket counts and amounts add up to the same totals.
C13_AggregateCounters ==
    noCallInFlight
    => /\ \A g \in DOMAIN mem : countersAgree(g, mem[g])
       /\ \A g \in DOMAIN games : countersAgree(g, games[g])

\* without restart or failure: a bet persisted for a closed round was counted on the
\* round created after it
C13_CountedOnNextRound ==
    /\ noCallInFlight
    /\ restarts = 0
    /\ cur \in DOMAIN games
    /\ games[cur].totalBets = 1
    /\ betsOn(cur) = {}
    /\ \E b \in DOMAIN bets : bets[b].game # cur /\ mem[bets[b].game].totalBets = 0

\* C14: when User.findById of a placeBet call resolves with a balance lower than the
\* amount, the call is refused with 'Insufficient balance'; no Bet is built or
\* persisted and no balance, transaction or round counter changes.
C14_InsufficientBalance ==
    [][\A c \in Callers :
          (placeBetUserFound(c) /\ balance[callers[c].user] < callers[c].amount)
          => /\ reply' = "Insufficient balance"
             /\ callers'[c] = IdleCaller
             /\ bets' = bets /\ nBets' = nBets
             /\ balance' = balance /\ txs' = txs
             /\ mem' = mem /\ games' = games]_vars

\* a call for 60 was refused for a user left with 40 after an earlier bet of 60
C14_RefusedForBalance ==
    /\ reply = "Insufficient balance"
    /\ noCallInFlight
    /\ nBets = 1
    /\ \E u \in Users :
          /\ balance[u] = InitialBalance - StakeSum(betsOf(u))
          /\ balance[u] < StakeSum(betsOf(u))

\* C15: when the user lookup of a placeBet call admitted on an open round resolves and
\* the amount is below MIN_BET_AMOUNT or above MAX_BET_AMOUNT, the call fails with
\* 'Bet amount must be between ...', whatever the balance of the user is.
C15_AmountLimits ==
    [][\A c \in Callers :
          (/\ placeBetUserFound(c)
           /\ (callers[c].amount < MIN_BET_AMOUNT \/ callers[c].amount > MAX_BET_AMOUNT))
          => reply' = "Bet amount must be between"]_vars

\* a call with an amount above the maximum was refused for its balance, with no bet
\* placed before
C15_RefusedForBalanceInstead ==
    /\ reply = "Insufficient balance"
    /\ nBets = 0
    /\ noCallInFlight
    /\ \A u \in Users : balance[u] = InitialBalance

\* C16: a placeBet call whose value is outside the domain of its category ends with the
\* failure 'Invalid bet value', and no step of it changes a bet, a balance, a
\* transaction or a round document.
C16_BetValueValidation ==
    [][\A c \in Callers :
          (/\ inFlight(c)
           /\ ~validBetValue(callers[c].betType, callers[c].betValue)
           /\ callers'[c].pc # callers[c].pc)
          => /\ bets' = bets /\ balance' = balance /\ txs' = txs
             /\ mem' = mem /\ games' = games
             /\ callers'[c].pc = "idle" => reply' = "Invalid bet value"]_vars

\* a call with the value 'blue' for a color has failed in addBet: its bet is persisted,
\* the balance is debited, the transaction is written, and totalBets of the round is
\* incremented in memory while no bucket is
C16_InvalidValuePersisted ==
    /\ reply = "error"
    /\ noCallInFlight
    /\ Len(txs) = 1
    /\ cur # NoGame
    /\ currentGame.totalBets = 1
    /\ CountSum(currentGame.stats, Buckets) = 0
    /\ \E b \in DOMAIN bets :
          /\ bets[b].betValue = "blue"
          /\ balance[bets[b].user] = InitialBalance - bets[b].amount

\* the engine is not in state Open: no round was created yet (or since the restart),
\* the round is being closed and settled, or it is the gap before createNewGame
notOpen ==
    \/ cur = NoGame
    \/ ender.pc # "idle"
    \/ \E t \in timers : t.kind = "createNewGame"

\* C17: a placeBet call made while the engine is not in state Open fails with
\* 'No active game to place bet' and changes nothing.
C17_NoActiveRound ==
    [][\A c \in Callers, u \in Users, w \in Wagers :
          (notOpen /\ placeBet(c, u, w[1], w[2], w[3]))
          => /\ reply' = "No active game to place bet"
             /\ callers' = callers /\ nCalls' = nCalls
             /\ bets' = bets /\ nBets' = nBets
             /\ balance' = balance /\ txs' = txs
             /\ mem' = mem /\ games' = games]_vars

\* a call was refused in the gap between the settlement of a round and createNewGame
C17_RefusedInGap ==
    /\ reply = "No active game to place bet"
    /\ cur # NoGame
    /\ currentGame.status = "completed"
    /\ ender.pc = "idle"
    /\ \E t \in timers : t.kind = "createNewGame" /\ t.in > 0

\* C18: while the retry of startGameCycle is pending after a failed round creation, a
\* placeBet call fails with 'No active game to place bet'; and a bet is persisted only
\* for a round that is in the store.
C18_NoWagerOnUnpersistedRound ==
    [][/\ \A c \in Callers, u \in Users, w \in Wagers :
             (/\ \E t \in timers : t.kind = "startGameCycle"
              /\ placeBet(c, u, w[1], w[2], w[3]))
             => (reply' = "No active game to place bet" /\ callers' = callers)
       /\ (\E t \in timers : t.kind = "startGameCycle")
          => \A b \in DOMAIN bets' \ DOMAIN bets : bets'[b].game \in DOMAIN games]_vars

\* the retry of startGameCycle is pending and a bet is persisted for the round whose
\* save failed
C18_WagerOnUnpersistedRound ==
    /\ \E t \in timers : t.kind = "startGameCycle"
    /\ failures = 1
    /\ games = <<>>
    /\ \E b \in DOMAIN bets : bets[b].game = cur /\ bets[b].status = "pending"

\* C19: when the save of a round being created fails, at startup (startGameCycle) or
\* after a close (createNewGame from its timer), the creation is set to be retried
\* after RETRY_MS.
C19_CreationRetried ==
    [][(/\ failures' = failures + 1
        /\ \/ (cycle # "idle" /\ cycle' = "idle")
           \/ (creator # NoGame /\ creator' = NoGame))
       => \E t \in timers' : t.kind = "startGameCycle" /\ t.in = RETRY_MS]_vars

\* the save of round 2, created from the timer, failed: no retry is pending, the round
\* is not in the store, and its close timer is running
C19_NextRoundNotRetried ==
    /\ failures = 1
    /\ creator = NoGame
    /\ cur # NoGame
    /\ cur \notin DOMAIN games
    /\ currentGame.period = 2
    /\ currentGame.status = "active"
    /\ ~\E t \in timers : t.kind = "startGameCycle"
    /\ \E t \in timers : t.kind = "gameEnd"

\* C20: once the close timer of the round of period p has fired, a round of period
\* p + 1 is eventually created, also when the save of endGame or an operation of
\* processBets fails (for the periods below MaxPeriod, the last the model creates).
C20_NextRoundOpens ==
    \A p \in 1..(MaxPeriod - 1) :
        (ender.pc # "idle" /\ ~ender.direct /\ period = p)
        ~> (\E g \in DOMAIN mem : mem[g].period = p + 1 /\ mem[g].status = "active")

\* the save of endGame failed for round 1, which is still active in the store, and
\* round 2 was created
C20_OpenedAfterFailedClose ==
    /\ failures = 1
    /\ cur \in DOMAIN games
    /\ currentGame.period = 2
    /\ \E g \in DOMAIN games :
          /\ games[g].period = 1
          /\ games[g].status = "active"
          /\ g \in DOMAIN mem
          /\ mem[g].status = "completed"

\* C21: in processBets, the step that saves the credit of a won bet raises the balance
\* of its user by exactly the winAmount (= potentialWin) of the bet; the next step
\* appends one 'win' transaction with balanceAfter - balanceBefore = winAmount; the
\* steps for a lost bet change no balance and write no transaction.
C21_SettlementEffects ==
    [][/\ (ender.pc = "userBalance" /\ ender'.pc = "txSave")
          => /\ ender.bet.status = "won"
             /\ ender.bet.winAmount = ender.bet.potentialWin
             /\ balance'[ender.bet.user] = balance[ender.bet.user] + ender.bet.winAmount
       /\ (ender.pc = "txSave" /\ ender' # ender /\ restarts' = restarts)
          => /\ Len(txs') = Len(txs) + 1
             /\ txs'[Len(txs')].type = "win"
             /\ txs'[Len(txs')].user = ender.bet.user
             /\ txs'[Len(txs')].amount = ender.bet.winAmount
             /\ txs'[Len(txs')].balanceAfter - txs'[Len(txs')].balanceBefore
                  = ender.bet.winAmount
       /\ (ender.pc \in {"betSave", "findUser", "userSave"} /\ ender.bet.status = "lost"
           /\ ender' # ender /\ restarts' = restarts)
          => /\ balance' = balance
             /\ txs' = txs
             /\ ender.pc = "betSave" => bets'[ender.bet.id].status = "lost"]_vars

\* the credit of a won bet is about to be saved from a balance read before a debit
\* that has been saved since
C21_StaleCredit ==
    /\ ender.pc = "userBalance"
    /\ ender.ubal # balance[ender.bet.user] + ender.bet.winAmount

\* C22: every stored bet has multiplier = getMultiplier(betType, betValue) and
\* potentialWin = amount x multiplier (20 on violet: 90), and neither changes on any
\* step; winAmount is 0 while the bet is pending, potentialWin once it is won and 0
\* once it is lost; a stored bet that is won or lost is the same on every later step.
C22_PayoutFixed ==
    /\ [](\A id \in DOMAIN bets :
             /\ bets[id].multiplier = getMultiplier(bets[id].betType, bets[id].betValue)
             /\ bets[id].potentialWin * 10 = bets[id].amount * bets[id].multiplier
             /\ (bets[id].betType = "color" /\ bets[id].betValue = "violet"
                 /\ bets[id].amount = 20) => bets[id].potentialWin = 90
             /\ bets[id].status \in {"pending", "won", "lost"}
             /\ bets[id].status = "pending" => bets[id].winAmount = 0
             /\ bets[id].status = "won" => bets[id].winAmount = bets[id].potentialWin
             /\ bets[id].status = "lost" => bets[id].winAmount = 0)
    /\ [][\A id \in DOMAIN bets :
             /\ id \in DOMAIN bets'
             /\ bets'[id].multiplier = bets[id].multiplier
             /\ bets'[id].potentialWin = bets[id].potentialWin
             /\ bets'[id].amount = bets[id].amount
             /\ bets[id].status # "pending" => bets'[id] = bets[id]]_vars

\* a violet bet of 20 is stored as won with winAmount 90 beside a lost bet, after the
\* settlement of their round has returned
C22_WonAndLostSettled ==
    /\ ender.pc = "idle"
    /\ \E a \in DOMAIN bets :
          /\ bets[a].status = "won" /\ bets[a].betValue = "violet"
          /\ bets[a].amount = 20 /\ bets[a].winAmount = 90
    /\ \E b \in DOMAIN bets : bets[b].status = "lost"

\* C23: for every bet of every category and value of its domain evaluated against
\* every outcome 0..9: a color bet wins iff its value is the outcome's color, with
\* multiplier 4.5 for violet and 2 for red and green; a number bet wins iff its value
\* is the numeral of the outcome's number, with multiplier 9; a size bet wins iff its
\* value is the outcome's size, with multiplier 2; the document is set to won exactly
\* when the bet wins.
C23_WagerEvaluation ==
    ev.pc \in {"checked", "twice", "again"}
    => LET numeral == <<"0", "1", "2", "3", "4", "5", "6", "7", "8", "9">>
       IN  /\ ev.betType \in {"color", "number", "size"}
           /\ ev.betType = "color"
              => /\ ev.isWin <=> (ev.betValue = ev.result.color)
                 /\ ev.bet.multiplier = IF ev.betValue = "violet" THEN 45 ELSE 20
           /\ ev.betType = "number"
              => /\ ev.isWin <=> (ev.betValue = numeral[ev.result.number + 1])
                 /\ ev.bet.multiplier = 90
           /\ ev.betType = "size"
              => /\ ev.isWin <=> (ev.betValue = ev.result.size)
                 /\ ev.bet.multiplier = 20
           /\ ev.isWin <=> (ev.bet.status = "won")
           /\ ~ev.isWin <=> (ev.bet.status = "lost")

\* a bet on "7" has been evaluated against the outcome 7: it wins 9 times its stake
C23_EachCategoryEvaluated ==
    /\ ev.pc = "checked"
    /\ ev.betType = "number" /\ ev.betValue = "7" /\ ev.result.number = 7
    /\ ev.isWin /\ ev.bet.multiplier = 90 /\ ev.bet.winAmount = 9 * ev.amount

\* C24: every outcome generateRandomResult builds, and every outcome stored on a round,
\* has a number in 0..9, color green for 1, 3, 7, 9, red for 2, 4, 6, 8 and violet for
\* 0, 5, and size big for 5..9 and small for 0..4.
C24_OutcomeDerivation ==
    LET derived(r) ==
            /\ r.number \in 0..9
            /\ r.color \in {"green", "red", "violet"}
            /\ r.color = "green" <=> r.number \in {1, 3, 7, 9}
            /\ r.color = "red" <=> r.number \in {2, 4, 6, 8}
            /\ r.color = "violet" <=> r.number \in {0, 5}
            /\ r.size \in {"big", "small"}
            /\ r.size = "big" <=> r.number >= 5
    IN  /\ ev.result # NoResult => derived(ev.result)
        /\ \A g \in DOMAIN games : games[g].result # NoResult => derived(games[g].result)
        /\ \A g \in DOMAIN mem : mem[g].result # NoResult => derived(mem[g].result)

\* the outcome for the drawn number 0 has been built
C24_ZeroDrawn ==
    /\ ev.pc = "drawn"
    /\ ev.result.number = 0

\* C25 (as stated): when the drawn number is 5 the derived color is violet and the
\* derived size is small.
C25_FiveIsVioletSmall ==
    ev.result.number = 5 => (ev.result.color = "violet" /\ ev.result.size = "small")

\* C25 (amended): when the drawn number is 5 the derived color is violet and the
\* derived size is big.
C25_FiveIsVioletBig ==
    ev.result.number = 5 => (ev.result.color = "violet" /\ ev.result.size = "big")

\* the outcome for the drawn number 5 has been built
C25_FiveDrawn ==
    /\ ev.pc = "drawn"
    /\ ev.result.number = 5

C27_BalanceFloor ==
    /\ [](\A u \in Users : balance[u] >= 0)
    /\ [][\A c \in Callers :
             (callers[c].pc = "userBalance" /\ callers'[c].pc # "userBalance"
              /\ restarts' = restarts /\ failures' = failures)
             => /\ balance[callers[c].user] >= callers[c].amount
                /\ balance'[callers[c].user]
                     = balance[callers[c].user] - callers[c].amount]_vars

\* the save of a debit is pending whose amount the balance in the store no longer
\* covers
C27_DebitAboveBalance ==
    \E c \in Callers :
        /\ callers[c].pc = "userBalance"
        /\ balance[callers[c].user] < callers[c].amount

\* C28: while the gameTimer callback closes and settles a round, that round is
\* this.currentGame, it is no longer active, no createNewGame is running or scheduled
\* and no round with a higher period exists; and a step that builds the round of the
\* next period is taken only when no close-and-settle is running and every round of a
\* lower period, in memory and in the store, is completed.
C28_SettlementBeforeNextOpen ==
    /\ []((ender.pc # "idle" /\ ~ender.direct)
          => /\ cur # NoGame
             /\ currentGame.status = "completed"
             /\ creator = NoGame
             /\ cycle = "idle"
             /\ ~\E t \in timers : t.kind = "createNewGame"
             /\ \A g \in DOMAIN mem : mem[g].period <= currentGame.period
             /\ \A g \in DOMAIN games : games[g].period <= currentGame.period)
    /\ [][nGames' > nGames
          => /\ ender.pc = "idle"
             /\ \A g \in DOMAIN mem :
                   mem[g].period < mem'[cur'].period => mem[g].status = "completed"
             /\ \A g \in DOMAIN games :
                   games[g].period < mem'[cur'].period => games[g].status = "completed"]_vars

\* round 2 is open while round 1 is still active in the store with a pending bet: it
\* was never closed or settled
C28_OpenedOverUnsettledRound ==
    /\ cur # NoGame
    /\ cur \in DOMAIN games
    /\ games[cur].period = 2
    /\ games[cur].status = "active"
    /\ \E g \in DOMAIN games :
          /\ games[g].period = 1
          /\ games[g].status = "active"
          /\ \E b \in DOMAIN bets : bets[b].game = g /\ bets[b].status = "pending"

\* how many times `event` has been broadcast for `period`
RECURSIVE EmittedIn(_, _, _)
EmittedIn(S, event, p) ==
    IF S = {} THEN 0
    ELSE LET e == CHOOSE x \in S : TRUE
         IN  (IF e.event = event /\ e.period = p THEN events[e] ELSE 0)
             + EmittedIn(S \ {e}, event, p)

Emitted(event, p) ==
    EmittedIn(DOMAIN events, event, p)

\* C29: on every step that broadcasts an event: a 'gameStarted' for period p is the
\* first for p and, for p > 1, follows a 'gameEnded' for p - 1; a 'betPlaced' for p
\* follows the 'gameStarted' for p, precedes every 'gameEnded' for p and carries the
\* period of the bet it reports; a 'gameEnded' for p follows the 'gameStarted' for p,
\* is the only one for p and is sent once the outcome is stored and processBets has
\* run.
C29_EventOrder ==
    [][\A e \in DOMAIN events' :
          (e \notin DOMAIN events \/ events'[e] > events[e])
          => /\ e.event = "gameStarted"
                => /\ Emitted("gameStarted", e.period) = 0
                   /\ e.period > 1 => Emitted("gameEnded", e.period - 1) = 1
             /\ e.event = "betPlaced"
                => /\ Emitted("gameStarted", e.period) = 1
                   /\ Emitted("gameEnded", e.period) = 0
                   /\ e.betPeriod = e.period
             /\ e.event = "gameEnded"
                => /\ Emitted("gameStarted", e.period) = 1
                   /\ Emitted("gameEnded", e.period) = 0
                   /\ cur \in DOMAIN games
                   /\ games[cur].status = "completed"
                   /\ games[cur].result # NoResult
                   /\ ender.pc \notin {"idle", "endSave"}]_vars

\* a 'betPlaced' event was broadcast with period 2 for a bet placed on round 1
C29_BetPlacedOnNextPeriod ==
    \E e \in DOMAIN events :
        /\ e.event = "betPlaced"
        /\ e.betPeriod = 1
        /\ e.period = 2

\* C30: a bet placement that is rejected, by the route or by placeBet, ends with one
\* of the messages that name its kind (no active game, betting time expired, amount
\* outside the limits, insufficient balance, invalid bet value), and the API answers
\* 400 with that message, never 500 'Server error while placing bet'.
C30_RejectionsDistinguishable ==
    reply \notin {"none", "bet"}
    => /\ reply \in EngineMessages
                      \cup {"Invalid color value", "Invalid size value", "Invalid number value"}
       /\ apiResponse(reply).status = 400
       /\ apiResponse(reply).message = reply
       /\ apiResponse(reply).message # "Server error while placing bet"

\* a posted bet on the number "07" passed the validation of the route and failed in
\* addBet after it was persisted and debited: the API answers with the catch-all
C30_CatchAllForBetValue ==
    /\ reply = "error"
    /\ apiResponse(reply) = [status |-> 500, message |-> "Server error while placing bet"]
    /\ noCallInFlight
    /\ \E b \in DOMAIN bets :
          /\ bets[b].betValue = "07"
          /\ balance[bets[b].user] = InitialBalance - bets[b].amount

\* the pending gameTimer callbacks
closeTimers ==
    {t \in timers : t.kind = "gameEnd"}

\* C31: at most one gameTimer is pending and none while its callback closes and
\* settles a round; scheduleGameEnd is called only when no gameTimer is pending and no
\* close-and-settle is running, for a round that was just built and is active; and the
\* step on which the creation of a round completes sets its gameTimer (startGameCycle)
\* or leaves the call of scheduleGameEnd pending (timer path); also when startGameCycle
\* is retried after a failure.
C31_SingleCloseTimer ==
    /\ [](/\ Cardinality(closeTimers) <= 1
          /\ (ender.pc # "idle" /\ ~ender.direct) => closeTimers = {})
    /\ [][/\ (\E t \in timers' \ timers : t.kind = "gameEnd" /\ t.in = GAME_DURATION * 1000)
             => /\ closeTimers = {}
                /\ ender.pc = "idle"
                /\ cur # NoGame
                /\ currentGame.status = "active"
                /\ endsIn[cur] = GAME_DURATION * 1000
          /\ (cycle = "save" /\ cycle' = "idle" /\ failures' = failures
              /\ restarts' = restarts)
             => Cardinality(closeTimers') = 1
          /\ (creator # NoGame /\ creator' = NoGame /\ failures' = failures
              /\ restarts' = restarts)
             => \E t \in timers' : t.kind \in {"gameEnd", "scheduleGameEnd"}]_vars

\* startGameCycle was retried after a failure and the round it then created has its
\* one gameTimer pending
C31_TimerAfterRetry ==
    /\ failures > 0
    /\ cycle = "idle"
    /\ ~\E t \in timers : t.kind = "startGameCycle"
    /\ cur # NoGame
    /\ cur \in DOMAIN games
    /\ games[cur].status = "active"
    /\ Cardinality(closeTimers) = 1

\* C32: a step on which an emit throws leaves the engine as the same step with a
\* delivered emit would: the placeBet call still returns its bet, startGameCycle sets
\* the gameTimer of the round it created and no retry (which would create a further
\* round), and the timer callback of endGame goes on to the next period.
C32_EmitFailureHarmless ==
    [][failures' > failures
       => /\ \A c \in Callers :
                (callers[c].pc = "gameSave" /\ callers'[c].pc = "idle") => reply' = "bet"
          /\ cycle = "save"
             => /\ Cardinality(closeTimers') = 1
                /\ ~\E t \in timers' : t.kind = "startGameCycle"
          /\ ender.pc # "idle"
             => /\ period' = period + 1
                /\ \E t \in timers' : t.kind = "createNewGame"]_vars

\* the emit of 'betPlaced' threw: the call was answered with an error while its bet
\* is persisted, debited and counted
C32_AdmittedBetReportedFailed ==
    /\ failures > 0
    /\ reply = "error"
    /\ noCallInFlight
    /\ \E b \in DOMAIN bets :
          /\ bets[b].game \in DOMAIN games
          /\ games[bets[b].game].totalBets = 1
          /\ balance[bets[b].user] = InitialBalance - bets[b].amount

\* the messages of the rejections placeBet throws before it builds the Bet
Rejections ==
    {"No active game to place bet", "Betting time expired", "User not found",
     "Insufficient balance", "Bet amount must be between"}

\* C33: a step on which placeBet throws 'No active game', 'Betting time expired',
\* 'User not found', 'Insufficient balance' or 'Bet amount must be between' changes no
\* balance, no persisted bet, no transaction, no round document (in the store or in
\* memory) and broadcasts no event.
C33_RejectionHasNoEffect ==
    [][(/\ reply' \in Rejections
        /\ \/ reply' # reply
           \/ \E c \in Callers : callers[c].pc = "findUser" /\ callers'[c].pc = "idle"
        /\ restarts' = restarts
        /\ failures' = failures)
       => /\ balance' = balance
          /\ bets' = bets
          /\ txs' = txs
          /\ games' = games
          /\ mem' = mem
          /\ events' = events
          /\ nBets' = nBets]_vars

\* after a bet was placed and debited, a call for an unknown user was rejected
C33_RejectedAfterBet ==
    /\ reply = "User not found"
    /\ Len(txs) = 1
    /\ \E b \in DOMAIN bets : balance[bets[b].user] = InitialBalance - bets[b].amount

\* C34: whenever no placeBet call and no settlement is in progress, the balance of a
\* user is at most the initial balance minus the stakes of all persisted bets of the
\* user plus the winnings of the settled ones: no persisted bet is unpaid, whatever
\* step of placeBet failed.
C34_NoFreeWager ==
    \A u \in Users :
        (ender.pc = "idle" /\ noCallInFlight)
        => balance[u] <= InitialBalance - StakeSum(betsOf(u)) + WinSum(betsOf(u))

\* the save of the debit was rejected after the bet was persisted; the bet has since
\* won and was credited: the balance is the initial one plus the winnings
C34_UnpaidBetWon ==
    /\ ender.pc = "idle"
    /\ noCallInFlight
    /\ txs # <<>>
    /\ \A k \in 1..Len(txs) : txs[k].type = "win"
    /\ \E b \in DOMAIN bets :
          /\ DOMAIN bets = {b}
          /\ bets[b].status = "won"
          /\ balance[bets[b].user] = InitialBalance + bets[b].winAmount

\* C35: within one placeBet call the Bet is built for the round that passed the status
\* and cutoff checks, addBet increments the counters of the round the Bet references,
\* and the 'betPlaced' event is broadcast while that round is this.currentGame and
\* carries its period.
C35_OneRoundPerPlacement ==
    [][\A c \in Callers :
          (restarts' = restarts /\ failures' = failures)
          => /\ (callers[c].pc = "findUser" /\ callers'[c].pc = "betSave")
                => callers'[c].bet.game = callers[c].checked
             /\ (callers[c].pc = "txSave" /\ callers'[c].pc = "gameSave")
                => /\ callers'[c].doc = callers[c].bet.game
                   /\ callers[c].bet.game = callers[c].checked
             /\ (callers[c].pc = "gameSave" /\ callers'[c].pc = "idle")
                => /\ cur = callers[c].bet.game
                   /\ \E e \in DOMAIN events' :
                         /\ e.event = "betPlaced"
                         /\ e.period = callers[c].bet.period
                         /\ e.betPeriod = callers[c].bet.period
                         /\ (e \notin DOMAIN events \/ events'[e] > events[e])]_vars

\* a call that passed the checks on round 1 has incremented the counters of round 2
\* and awaits the save of that round
C35_CountedOnOtherRound ==
    \E c \in Callers :
        /\ callers[c].pc = "gameSave"
        /\ callers[c].bet.game = callers[c].checked
        /\ callers[c].doc # callers[c].bet.game
        /\ mem[callers[c].doc].totalBets = 1
        /\ mem[callers[c].doc].period = callers[c].bet.period + 1

\* C36: what getTimeLeft returns is never negative: 0 when there is no current round,
\* endTime - now while that is positive, and 0 once the close time has passed, also
\* when the current round is already completed.
C36_TimeLeftNotNegative ==
    clk.pc = "returned"
    => /\ clk.out >= 0
       /\ clk.game = "none" => clk.out = 0
       /\ (clk.game # "none" /\ clk.diff > 0) => clk.out = clk.diff
       /\ (clk.game # "none" /\ clk.diff <= 0) => clk.out = 0

\* getTimeLeft has returned 0 for a completed round whose close time passed 10 s ago
C36_ZeroInTheGap ==
    /\ clk.pc = "returned"
    /\ clk.game = "completed"
    /\ clk.diff = -ClockStep
    /\ clk.out = 0

\* C37: for every bet type and value of the domains, every number 0..9 and every
\* timeLeft, the client's getBetMultiplier, getColorFromNumber and getSizeFromNumber
\* return what the server's return, and when the client enables betting the cutoff
\* test of placeBet admits a bet at that timeLeft.
C37_ClientAgreesWithServer ==
    cl.pc = "both"
    => /\ cl.client.multiplier = cl.server.multiplier
       /\ cl.client.color = cl.server.color
       /\ cl.client.size = cl.server.size
       /\ cl.client.betting => cl.server.betting

\* both sides have answered for a violet bet, the number 5 and a timeLeft one ms above
\* the cutoff, where the client enables betting
C37_EnabledAboveCutoff ==
    /\ cl.pc = "both"
    /\ cl.betValue = "violet"
    /\ cl.number = 5
    /\ cl.timeLeft = CUTOFF_MS + 1
    /\ cl.client.betting
    /\ cl.client.multiplier = 45

\* C38: whatever status updates the admin applies to one withdrawal, its amount is
\* added back to the user's balance at most once, and never after the withdrawal was
\* completed.
C38_RefundedAtMostOnce ==
    /\ wd.refunds <= 1
    /\ ~wd.lateRefund

\* the withdrawal was requested and deducted, the admin set it to failed, back to
\* pending and to failed again, one request after the other, and the amount was added
\* to the balance twice
C38_RefundedTwice ==
    /\ wd.pc = "submitted"
    /\ wd.admin = IdleAdmin
    /\ wd.status = "failed"
    /\ ~wd.completed
    /\ wd.refunds = 2
    /\ wd.balance = 3 * MIN_WITHDRAWAL + MIN_WITHDRAWAL

====
